---- MODULE Spec2Model ----
(***************************************************************************)
(* Verification model of the guitar-listing tracker.                       *)
(*                                                                         *)
(*  - scripts/searcher.py : the crawl loop and its grace-period sold       *)
(*    detector (check_sold, mark_sold_batch, mark_on_hold, append_new and  *)
(*    the persisted candidate file), specification Spec.                   *)
(*  - scripts/valuation.py: snapshot_prices and compute_learned_rates,     *)
(*    specification SpecVal; the appreciation_rate lookup on top of them,  *)
(*    specification SpecRate.                                              *)
(*                                                                         *)
(* Times are seconds, rates are basis points (1/10000), money is cents.    *)
(***************************************************************************)
EXTENDS Integers, Sequences, FiniteSets, TLC

(***************************************************************************)
(* Bounds of the model                                                     *)
(***************************************************************************)
\* Crawl cycles the clock leaves room for.
MaxCycles == 6

\* Times the calendar advances to a later day.
MaxAdvance == 1

\* Listings one snapshot_prices call is given.
MaxListings == 2

\* The highest price and market bound of the value score's inputs.
MaxPrice == 8

\* The highest top_n budget.json is given.
MaxTopN == 2

\* The marks (on hold, sold) the crawler puts on the sheet the scorer reads.
MaxMarks == 2

\* The guitars of a collection _score_fit is given.
MaxCollection == 4

\* The crashes of the searcher in the middle of an iteration.
MaxCrashes == 1

\* The runs of reverb_sold.collect.
MaxRuns == 2

(***************************************************************************)
(* searcher.py : configuration                                             *)
(***************************************************************************)
INTERVAL == 300

SOLD_THRESHOLD == 600

CONDITION_SCALE ==
  << "poor", "fair", "good-", "good", "good+",
     "very good-", "very good", "very good+",
     "excellent-", "excellent", "excellent+",
     "near mint", "mint" >>

\* Product ids of the crawled site (retrofret ProductID numbers).
IDs == {1, 2}

\* The clock stops the model after MaxCycles sleeps.
MaxTime == MaxCycles * INTERVAL

\* Seconds a crawl adds to the sleep of INTERVAL between two check_sold calls.
ScrapeTimes == {0, 150}

\* Seconds between the last check_sold of a stopped process and the first one
\* of the process started after it.
StartDelays == {150, 600}

\* Condition strings a product page is parsed to (None is written "none").
Conditions == {"none", "very good+", "excellent-"}

\* CONDITION_SCALE.index(cond), -1 when cond is not in the scale.
ConditionIndex(cond) ==
  IF \E i \in 1 .. Len(CONDITION_SCALE) : CONDITION_SCALE[i] = cond
  THEN (CHOOSE i \in 1 .. Len(CONDITION_SCALE) : CONDITION_SCALE[i] = cond) - 1
  ELSE -1

MIN_CONDITION_RANK == ConditionIndex("excellent-")

condition_rank(cond) ==
  IF cond = "none" THEN -1 ELSE ConditionIndex(cond)

VARIABLES
  now,              \* wall clock, time.time()
  ledger,           \* listings.xlsx: sequence of rows [id, on_hold, sold]
  cand_file,        \* .sold_candidates.json
  cache,            \* .condition_cache.json (saved whenever it changes)
  seen_ids,         \* main: seen_ids
  sold_ids,         \* main: sold_ids
  sold_candidates,  \* main: sold_candidates
  all_current_ids,  \* main: ids of the last crawl
  newly_sold,       \* main: ids check_sold confirmed in the last crawl
  reappeared,       \* history: ids whose candidacy the last crawl removed
  on_hold_seen,     \* history: tracked ids the last crawl saw with the on-hold marker
  on_hold_crawl,    \* history: the ids the last crawl returned with the on-hold marker
  fresh,            \* the process has started and not crawled yet
  missRun,          \* history: consecutive non-empty crawls an id was missing from
  missStart,        \* history: time of the first crawl of that run, -1 outside a run
  procMiss,         \* history: the part of missRun seen by the running process
  graceRestart,     \* history: the process restarted during the id's run
  emitCount         \* history: how often an id was emitted as confirmed sold

searcherVars ==
  << now, ledger, cand_file, cache, seen_ids, sold_ids, sold_candidates,
     all_current_ids, newly_sold, reappeared, on_hold_seen, on_hold_crawl, fresh,
     missRun, missStart, procMiss, graceRestart, emitCount >>

searcherNoLedger ==
  << now, cand_file, cache, seen_ids, sold_ids, sold_candidates,
     all_current_ids, newly_sold, reappeared, on_hold_seen, on_hold_crawl, fresh,
     missRun, missStart, procMiss, graceRestart, emitCount >>

VARIABLES
  today,                 \* date.today(), a day number
  price_history,         \* price_history.json: [exists, corrupt, snapshots, learned_rates]
  _learned_rates_cache,  \* valuation._learned_rates_cache: [loaded, rates]
  last                   \* the last valuation call: its arguments and return value

valVars == << today, price_history, _learned_rates_cache, last >>

VARIABLES
  entry,         \* scorer: the listing being scored
  value_call,    \* scorer: the last _score_value call, arguments and result
  fit_call       \* scorer: the last _score_fit call, arguments and result

VARIABLES
  collection_json,  \* collection.json as read_collection returns it
  budget_json,      \* budget.json: [weights, ml_enabled, ml_blend, top_n]
  knowledge,        \* data/knowledge and the learned rates: [iconic, guitarists, learned]
  scored,           \* scorer: the last score_listing call, arguments and result
  recommendations   \* scorer.run: the last run and the Recommendations sheet it wrote

listVars == << collection_json, budget_json, knowledge, scored, recommendations >>

VARIABLES
  ml_module,        \* scorer._ml_predict is not None
  joblib,           \* `import joblib` succeeds in this process
  models_dir,       \* data/ml/models: per model name, the two files
  _model_cache,     \* ml_predict._model_cache: the names loaded
  _meta_cache,      \* ml_predict._meta_cache: name -> meta
  _load_attempted,  \* ml_predict._load_attempted
  file_reads,       \* how often this process read each file of models_dir
  ml_call           \* the last call into ml_predict: [op, raised, ret, loaded]

mlVars ==
  << ml_module, joblib, models_dir, _model_cache, _meta_cache, _load_attempted,
     file_reads, ml_call >>

scoreVars == << entry, value_call, fit_call, listVars, mlVars >>

VARIABLES
  train_inputs,     \* ml_train: what train_all finds in training_data.json,
                    \* collection.json and price_history.json, as counts
  train,            \* ml_train: the position of train_all and its results
  crashes,          \* searcher: the crashes in the middle of an iteration so far
  training_data,    \* reverb_sold: the sold_listings of training_data.json
  collect_run,      \* reverb_sold: the position of collect and what it holds
  xlsx,             \* watchdog: the rows read_entries finds in the workbook
  notified_files,   \* watchdog: .notified.json, .notified-hold.json, .notified-sold.json
  watchdog,         \* watchdog: the process, its three sets and its password
  notes             \* history: the notifications each id has triggered

trainVars == << train_inputs, train >>

\* The state of the other programs of the repository.
collectVars == << training_data, collect_run >>

watchVars == << xlsx, notified_files, watchdog, notes >>

toolVars == << trainVars, crashes, collectVars, watchVars >>

vars == << searcherVars, valVars, scoreVars, toolVars >>

(***************************************************************************)
(* Helpers                                                                 *)
(***************************************************************************)
Min(a, b) == IF a <= b THEN a ELSE b

Max(a, b) == IF a >= b THEN a ELSE b

\* The ids of a set in ascending order: sorted(..., key=lambda g: int(g["id"])).
RECURSIVE SortedIds(_)
SortedIds(S) ==
  IF S = {} THEN << >>
  ELSE LET m == CHOOSE x \in S : \A y \in S : x <= y
       IN << m >> \o SortedIds(S \ {m})

(***************************************************************************)
(* searcher.py : persisted state                                           *)
(***************************************************************************)
\* The ids of rows whose URL has the form .../product/<slug>, as the rows of
\* sites other than retrofret.com have; the URL of a row with an id of IDs
\* holds ProductID=<id>.
SlugIDs == { 3 }

\* The ids of woodstore.fr listings whose slug is a number: the URL of their
\* row has the form .../guitares/p/<id>.
WoodIDs == { 4 }

\* re.search(r"ProductID=(\d+)", url) on the URL of the row of an id.
ProductIDMatch(id) == id \notin SlugIDs \cup WoodIDs

\* re.search(r"/products?/([^/?]+)", url) on the URL of the row of an id.
SlugMatch(id) == id \in SlugIDs

\* load_seen_ids: the ProductIDs of the rows of the workbook, and the slugs
\* of the rows without ProductID.
load_seen_ids(rows) ==
  { rows[i].id : i \in { j \in 1 .. Len(rows) :
                           ProductIDMatch(rows[j].id) \/ SlugMatch(rows[j].id) } }

\* load_sold_ids: the ProductIDs of the rows that carry a sold date.
load_sold_ids(rows) ==
  { rows[i].id : i \in { j \in 1 .. Len(rows) :
                           rows[j].sold /\ ProductIDMatch(rows[j].id) } }

\* Variant: start-up ignores the candidate file.
load_sold_candidates_Empty(file) == << >>

\* load_sold_candidates: the dict written by save_sold_candidates.
load_sold_candidates(file) == file

\* save_sold_candidates: json.dump of {pid: first_missed_timestamp}.
save_sold_candidates(candidates) == candidates

(***************************************************************************)
(* searcher.py : check_sold                                                *)
(***************************************************************************)
\* Variant: the loop also visits the ids already sold.
Tracked_WithSold(seen, sold) == seen

\* The ids the loop of check_sold visits.
Tracked(seen, sold) == seen \ sold

\* Variant: a tracked id is confirmed as soon as it is missing.
CheckSoldNewly_NoGrace(seen, current, sold, candidates, t) ==
  { pid \in Tracked(seen, sold) : pid \notin current }

\* Variant: the grace period must be exceeded, not reached.
CheckSoldNewly_Strict(seen, current, sold, candidates, t) ==
  { pid \in Tracked(seen, sold) :
      /\ pid \notin current
      /\ pid \in DOMAIN candidates
      /\ t - candidates[pid] > SOLD_THRESHOLD }

\* list_of_newly_confirmed_sold_pids
CheckSoldNewly(seen, current, sold, candidates, t) ==
  { pid \in Tracked(seen, sold) :
      /\ pid \notin current
      /\ pid \in DOMAIN candidates
      /\ t - candidates[pid] >= SOLD_THRESHOLD }

\* Variant: an id back on the site keeps its candidacy.
CheckSoldCandidates_NoClear(seen, current, sold, candidates, t) ==
  LET tracked == Tracked(seen, sold)
      started == { pid \in tracked : pid \notin current /\ pid \notin DOMAIN candidates }
      keep    == DOMAIN candidates \ CheckSoldNewly(seen, current, sold, candidates, t)
  IN [ pid \in keep \cup started |->
         IF pid \in DOMAIN candidates THEN candidates[pid] ELSE t ]

\* updated_candidates
CheckSoldCandidates(seen, current, sold, candidates, t) ==
  LET tracked == Tracked(seen, sold)
      cleared == { pid \in tracked : pid \in current }
      started == { pid \in tracked : pid \notin current /\ pid \notin DOMAIN candidates }
      keep    == (DOMAIN candidates \ cleared)
                   \ CheckSoldNewly(seen, current, sold, candidates, t)
  IN [ pid \in keep \cup started |->
         IF pid \in DOMAIN candidates THEN candidates[pid] ELSE t ]

(***************************************************************************)
(* searcher.py : workbook updates                                          *)
(***************************************************************************)
\* mark_sold_batch: a sold date on the rows of pids that have none.
mark_sold_batch(rows, pids) ==
  [ i \in 1 .. Len(rows) |->
      IF ProductIDMatch(rows[i].id) /\ rows[i].id \in pids /\ ~rows[i].sold
      THEN [ rows[i] EXCEPT !.sold = TRUE ] ELSE rows[i] ]

\* Variant: rows with a sold date are passed over.
mark_on_hold_SkipSold(rows, on_hold_ids) ==
  [ i \in 1 .. Len(rows) |->
      IF ProductIDMatch(rows[i].id) /\ rows[i].id \in on_hold_ids /\ ~rows[i].on_hold
           /\ ~rows[i].sold
      THEN [ rows[i] EXCEPT !.on_hold = TRUE ] ELSE rows[i] ]

\* mark_on_hold: an on-hold date on the rows of on_hold_ids that have none.
mark_on_hold(rows, on_hold_ids) ==
  [ i \in 1 .. Len(rows) |->
      IF ProductIDMatch(rows[i].id) /\ rows[i].id \in on_hold_ids /\ ~rows[i].on_hold
      THEN [ rows[i] EXCEPT !.on_hold = TRUE ] ELSE rows[i] ]

\* append_new: the ids of guitars not in seen, the set append_new returns.
AppendNewIds(guitars, seen) == guitars \ seen

\* append_new: one row per new guitar, in ascending id order, after the rows.
append_new(rows, guitars, seen) ==
  LET new == SortedIds(AppendNewIds(guitars, seen))
  IN rows \o [ i \in 1 .. Len(new) |-> [ id |-> new[i], on_hold |-> FALSE, sold |-> FALSE ] ]

(***************************************************************************)
(* searcher.py : main                                                      *)
(***************************************************************************)
SearcherInit ==
  /\ now = 0
  /\ ledger = << >>
  /\ cand_file = << >>
  /\ cache = << >>
  /\ seen_ids = {}
  /\ sold_ids = {}
  /\ sold_candidates = << >>
  /\ all_current_ids = {}
  /\ newly_sold = {}
  /\ reappeared = {}
  /\ on_hold_seen = {}
  /\ on_hold_crawl = {}
  /\ fresh = TRUE
  /\ missRun = [ p \in IDs |-> 0 ]
  /\ missStart = [ p \in IDs |-> -1 ]
  /\ procMiss = [ p \in IDs |-> 0 ]
  /\ graceRestart = [ p \in IDs |-> FALSE ]
  /\ emitCount = [ p \in IDs |-> 0 ]

\* Variant: sold detection runs on every crawl result.
DetectionRuns_Always(current) == TRUE

\* if all_guitars: sold detection is skipped when the crawl returns nothing.
DetectionRuns(current) == current # {}

\* The tracked ids that have no sold date in the workbook.
LedgerUnsold(rows) == load_seen_ids(rows) \ load_sold_ids(rows)

\* One iteration of the while loop of main: scrape_all returned the guitars
\* `current`, of which `holds` are on hold; `fetched` is what fetch_condition
\* returns for the ids not cached yet; `d` seconds passed since the last crawl.
Crawl(current, holds, fetched, d) ==
  LET t        == now + d
      detect   == DetectionRuns(current)
      newly    == IF detect
                  THEN CheckSoldNewly(seen_ids, current, sold_ids, sold_candidates, t)
                  ELSE {}
      cands    == IF detect
                  THEN CheckSoldCandidates(seen_ids, current, sold_ids, sold_candidates, t)
                  ELSE sold_candidates
      rows1    == IF newly # {} THEN mark_sold_batch(ledger, newly) ELSE ledger
      cache1   == [ p \in DOMAIN cache \cup current |->
                      IF p \in DOMAIN cache THEN cache[p] ELSE fetched[p] ]
      filtered == { p \in current : condition_rank(cache1[p]) >= MIN_CONDITION_RANK }
      hold_now == { p \in filtered : p \in holds /\ p \in seen_ids }
      rows2    == mark_on_hold(rows1, hold_now)
      offered  == { p \in filtered : p \notin holds }
      unsold   == LedgerUnsold(ledger)
  IN /\ t <= MaxTime
     /\ now' = t
     /\ sold_candidates' = cands
     /\ newly_sold' = newly
     /\ reappeared' = IF detect THEN DOMAIN sold_candidates \cap current ELSE {}
     /\ on_hold_seen' = holds \cap seen_ids
     /\ on_hold_crawl' = holds
     /\ sold_ids' = sold_ids \cup newly
     /\ cand_file' = IF detect THEN save_sold_candidates(cands) ELSE cand_file
     /\ cache' = cache1
     /\ ledger' = append_new(rows2, offered, seen_ids)
     /\ seen_ids' = seen_ids \cup AppendNewIds(offered, seen_ids)
     /\ all_current_ids' = current
     /\ fresh' = FALSE
     /\ missRun' = [ p \in IDs |->
          IF ~detect THEN missRun[p]
          ELSE IF p \in current THEN 0
          ELSE IF missRun[p] > 0 THEN Min(missRun[p] + 1, 2)
          ELSE IF p \in unsold THEN 1 ELSE 0 ]
     /\ missStart' = [ p \in IDs |->
          IF ~detect THEN missStart[p]
          ELSE IF p \in current THEN -1
          ELSE IF missRun[p] > 0 THEN missStart[p]
          ELSE IF p \in unsold THEN t ELSE -1 ]
     /\ procMiss' = [ p \in IDs |->
          IF ~detect THEN procMiss[p]
          ELSE IF p \in current THEN 0
          ELSE IF missRun[p] > 0 THEN Min(procMiss[p] + 1, 3)
          ELSE IF p \in unsold THEN 1 ELSE 0 ]
     /\ graceRestart' = [ p \in IDs |->
          IF detect /\ p \in current THEN FALSE ELSE graceRestart[p] ]
     /\ emitCount' = [ p \in IDs |->
          IF p \in newly THEN Min(emitCount[p] + 1, 2) ELSE emitCount[p] ]

\* An iteration of the loop, with every crawl result the sites can give.
CrawlCycle ==
  \E current \in SUBSET IDs :
    \E holds \in SUBSET current :
      \E fetched \in [ current \ DOMAIN cache -> Conditions ] :
        \E d \in (IF fresh THEN StartDelays ELSE { INTERVAL + s : s \in ScrapeTimes }) :
          Crawl(current, holds, fetched, d)

\* An iteration of the loop with woodstore.fr in the crawl: its listings are
\* never on hold.
CrawlSites ==
  \E current \in SUBSET ({ 1 } \cup WoodIDs) :
    \E holds \in SUBSET (current \cap IDs) :
      \E fetched \in [ current \ DOMAIN cache -> Conditions ] :
        \E d \in (IF fresh THEN StartDelays ELSE { INTERVAL + s : s \in ScrapeTimes }) :
          Crawl(current, holds, fetched, d)

\* The process stops between two iterations and is started again: main loads
\* its state from the workbook and the json files.
Restart ==
  /\ ~fresh
  /\ seen_ids' = load_seen_ids(ledger)
  /\ sold_ids' = load_sold_ids(ledger)
  /\ sold_candidates' = load_sold_candidates(cand_file)
  /\ fresh' = TRUE
  /\ procMiss' = [ p \in IDs |-> 0 ]
  /\ graceRestart' = [ p \in IDs |-> missRun[p] > 0 ]
  /\ UNCHANGED << now, ledger, cand_file, cache, all_current_ids, newly_sold,
                  reappeared, on_hold_seen, on_hold_crawl, missRun, missStart, emitCount >>

\* The statements of an iteration after which the process can die, in the
\* order main runs them.
CrashPoints ==
  << "check_sold", "mark_sold_batch", "save_sold_candidates", "save_cache",
     "mark_on_hold" >>

\* An iteration of the loop that the process does not finish: it dies after
\* the statement CrashPoints[point], with the files written up to there, and
\* is started again, loading its state from the workbook and the json files.
CrawlCrash(current, holds, fetched, d, point) ==
  LET t        == now + d
      detect   == DetectionRuns(current)
      newly    == IF detect
                  THEN CheckSoldNewly(seen_ids, current, sold_ids, sold_candidates, t)
                  ELSE {}
      cands    == IF detect
                  THEN CheckSoldCandidates(seen_ids, current, sold_ids, sold_candidates, t)
                  ELSE sold_candidates
      rows1    == IF newly # {} /\ point >= 2 THEN mark_sold_batch(ledger, newly)
                  ELSE ledger
      cache1   == [ p \in DOMAIN cache \cup current |->
                      IF p \in DOMAIN cache THEN cache[p] ELSE fetched[p] ]
      filtered == { p \in current : condition_rank(cache1[p]) >= MIN_CONDITION_RANK }
      hold_now == { p \in filtered : p \in holds /\ p \in seen_ids }
      rows2    == IF point >= 5 THEN mark_on_hold(rows1, hold_now) ELSE rows1
      file1    == IF detect /\ point >= 3 THEN save_sold_candidates(cands)
                  ELSE cand_file
      unsold   == LedgerUnsold(ledger)
  IN /\ t <= MaxTime
     /\ crashes < MaxCrashes
     /\ crashes' = crashes + 1
     /\ now' = t
     /\ ledger' = rows2
     /\ cand_file' = file1
     /\ cache' = IF point >= 4 THEN cache1 ELSE cache
     /\ seen_ids' = load_seen_ids(rows2)
     /\ sold_ids' = load_sold_ids(rows2)
     /\ sold_candidates' = load_sold_candidates(file1)
     /\ newly_sold' = newly
     /\ reappeared' = IF detect THEN DOMAIN sold_candidates \cap current ELSE {}
     /\ on_hold_seen' = IF point >= 5 THEN holds \cap seen_ids ELSE {}
     /\ on_hold_crawl' = holds
     /\ all_current_ids' = current
     /\ fresh' = TRUE
     /\ missRun' = [ p \in IDs |->
          IF ~detect THEN missRun[p]
          ELSE IF p \in current THEN 0
          ELSE IF missRun[p] > 0 THEN Min(missRun[p] + 1, 2)
          ELSE IF p \in unsold THEN 1 ELSE 0 ]
     /\ missStart' = [ p \in IDs |->
          IF ~detect THEN missStart[p]
          ELSE IF p \in current THEN -1
          ELSE IF missRun[p] > 0 THEN missStart[p]
          ELSE IF p \in unsold THEN t ELSE -1 ]
     /\ procMiss' = [ p \in IDs |-> 0 ]
     /\ graceRestart' = [ p \in IDs |->
          IF detect /\ p \in current THEN FALSE
          ELSE IF detect THEN TRUE ELSE missRun[p] > 0 ]
     /\ emitCount' = [ p \in IDs |->
          IF p \in newly THEN Min(emitCount[p] + 1, 2) ELSE emitCount[p] ]

\* A crash at every point of an iteration, with every crawl result: the on
\* hold flags and the fetched conditions vary where the iteration got far
\* enough to use them.
Crash ==
  \E current \in SUBSET IDs :
    \E point \in DOMAIN CrashPoints :
      \E holds \in (IF point >= 5 THEN SUBSET current ELSE { {} }) :
        \E fetched \in (IF point >= 4 THEN [ current \ DOMAIN cache -> Conditions ]
                        ELSE { [ p \in current \ DOMAIN cache |-> "excellent-" ] }) :
          \E d \in (IF fresh THEN StartDelays ELSE { INTERVAL + s : s \in ScrapeTimes }) :
            CrawlCrash(current, holds, fetched, d, point)

(***************************************************************************)
(* valuation.py : strings                                                  *)
(*                                                                         *)
(* A brand or model string is a sequence of tokens, a word or a blank; a   *)
(* year string is a sequence of characters.                                *)
(***************************************************************************)
UpperLetters == "ABCDEFGHIJKLMNOPQRSTUVWXYZ"

LowerLetters == "abcdefghijklmnopqrstuvwxyz"

UpperSet == { SubSeq(UpperLetters, i, i) : i \in 1 .. Len(UpperLetters) }

LowerSet == { SubSeq(LowerLetters, i, i) : i \in 1 .. Len(LowerLetters) }

\* The lowercase letter of each uppercase letter.
LowerOf ==
  [ c \in UpperSet |->
      LET i == CHOOSE j \in 1 .. Len(UpperLetters) : SubSeq(UpperLetters, j, j) = c
      IN SubSeq(LowerLetters, i, i) ]

LowerChar(c) == IF c \in UpperSet THEN LowerOf[c] ELSE c

\* str.lower() of a character string.
RECURSIVE StrLower(_)
StrLower(str) ==
  IF str = "" THEN "" ELSE LowerChar(SubSeq(str, 1, 1)) \o StrLower(SubSeq(str, 2, Len(str)))

\* str.strip() of a character string.
RECURSIVE StrStrip(_)
StrStrip(str) ==
  IF str = "" THEN ""
  ELSE IF SubSeq(str, 1, 1) = " " THEN StrStrip(SubSeq(str, 2, Len(str)))
  ELSE IF SubSeq(str, Len(str), Len(str)) = " " THEN StrStrip(SubSeq(str, 1, Len(str) - 1))
  ELSE str

\* a in b
StrIn(a, b) ==
  \E i \in 1 .. Len(b) - Len(a) + 1 : SubSeq(b, i, i + Len(a) - 1) = a

\* str.replace(c, r) for a character c.
RECURSIVE StrReplace(_, _, _)
StrReplace(str, c, r) ==
  IF str = "" THEN ""
  ELSE (IF SubSeq(str, 1, 1) = c THEN r ELSE SubSeq(str, 1, 1))
         \o StrReplace(SubSeq(str, 2, Len(str)), c, r)

\* str.lower() of one token.
LowerToken(tok) == StrLower(tok)

\* str.lower()
Lower(str) == [ i \in 1 .. Len(str) |-> LowerToken(str[i]) ]

\* str.strip(): leading and trailing blanks removed.
RECURSIVE Strip(_)
Strip(str) ==
  IF str = << >> THEN << >>
  ELSE IF Head(str) = " " THEN Strip(Tail(str))
  ELSE IF str[Len(str)] = " " THEN Strip(SubSeq(str, 1, Len(str) - 1))
  ELSE str

\* f"{brand.lower()}|{model.lower()}"
KeyOf(brand, model) == Lower(brand) \o << "|" >> \o Lower(model)

(***************************************************************************)
(* valuation.py : brand tiers and the static era table                     *)
(***************************************************************************)
_DEFAULT_PREMIUM == { "fender", "gibson", "martin" }

_DEFAULT_MAJOR ==
  { "rickenbacker", "gretsch", "guild", "epiphone", "taylor",
    "angelico", "maccaferri", "national", "dobro", "vox",
    "mosrite", "harmony", "kay", "danelectro", "supro" }

\* _brand_tier: the words of the lowercase brand against the two tier sets.
_brand_tier(brand) ==
  LET words == { Lower(brand)[i] : i \in 1 .. Len(brand) } \ { "", " " }
  IN IF words \cap _DEFAULT_PREMIUM # {} THEN "premium"
     ELSE IF words \cap _DEFAULT_MAJOR # {} THEN "major"
     ELSE "minor"

\* _ERA_RATES: (era_start, era_end, rate_premium, rate_major, rate_minor),
\* rates in basis points.
_ERA_RATES ==
  << << 0,    1950, 1200, 1000, 500 >>,
     << 1950, 1965, 1000,  800, 400 >>,
     << 1965, 1980,  600,  500, 300 >>,
     << 1980, 2000,  400,  300, 200 >>,
     << 2000, 9999,  200,  100,   0 >> >>

Digits == { "0", "1", "2", "3", "4", "5", "6", "7", "8", "9" }

DigitValue(c) ==
  CASE c = "0" -> 0 [] c = "1" -> 1 [] c = "2" -> 2 [] c = "3" -> 3 [] c = "4" -> 4
    [] c = "5" -> 5 [] c = "6" -> 6 [] c = "7" -> 7 [] c = "8" -> 8 [] c = "9" -> 9

\* The value _parse_year returns for None.
NoYear == -1

\* _parse_year: the first run of 4 digits of the string, NoYear when none.
_parse_year(raw) ==
  LET starts == { i \in 1 .. Len(raw) - 3 : \A k \in 0 .. 3 : raw[i + k] \in Digits }
  IN IF starts = {} THEN NoYear
     ELSE LET i == CHOOSE j \in starts : \A k \in starts : j <= k
          IN 1000 * DigitValue(raw[i]) + 100 * DigitValue(raw[i + 1])
               + 10 * DigitValue(raw[i + 2]) + DigitValue(raw[i + 3])

\* The year appreciation_rate looks up when none is parsed: `... or 1970`.
DEFAULT_YEAR == 1970

\* return 0.02  # fallback
FALLBACK_RATE == 200

\* Variant: a string without a year counts as a recent year.
YearOrDefault_Recent(year) ==
  IF _parse_year(year) = NoYear \/ _parse_year(year) = 0
  THEN 2000 ELSE _parse_year(year)

\* yr = _parse_year(year) or 1970 (None and 0 are both falsy).
YearOrDefault(year) ==
  IF _parse_year(year) = NoYear \/ _parse_year(year) = 0
  THEN DEFAULT_YEAR ELSE _parse_year(year)

\* The loop of appreciation_rate over _ERA_RATES.
StaticRate(brand, year) ==
  LET yr   == YearOrDefault(year)
      tier == _brand_tier(brand)
      hits == { i \in 1 .. Len(_ERA_RATES) : _ERA_RATES[i][1] <= yr /\ yr < _ERA_RATES[i][2] }
  IN IF hits = {} THEN FALLBACK_RATE
     ELSE LET e == _ERA_RATES[CHOOSE i \in hits : \A k \in hits : i <= k]
          IN IF tier = "premium" THEN e[3]
             ELSE IF tier = "major" THEN e[4]
             ELSE e[5]

\* if model: ... if key in learned
UsesLearned(learned, brand, model) ==
  model # << >> /\ KeyOf(brand, model) \in DOMAIN learned

\* Variant: the static table alone.
appreciation_rate_Static(learned, brand, year, model) == StaticRate(brand, year)

\* appreciation_rate, given the table _load_learned_rates returns.
appreciation_rate(learned, brand, year, model) ==
  IF UsesLearned(learned, brand, model)
  THEN learned[KeyOf(brand, model)]
  ELSE StaticRate(brand, year)

(***************************************************************************)
(* Exact arithmetic for math.pow: naturals as little-endian sequences of   *)
(* limbs below LimbBase                                                    *)
(***************************************************************************)
LimbBase == 10000

RECURSIVE BigFromNat(_)
BigFromNat(n) ==
  IF n = 0 THEN << >> ELSE << n % LimbBase >> \o BigFromNat(n \div LimbBase)

\* X * k for a natural k small enough that a limb times k fits a machine int.
RECURSIVE BigMulCarry(_, _, _)
BigMulCarry(X, k, carry) ==
  IF X = << >> THEN BigFromNat(carry)
  ELSE LET v == Head(X) * k + carry
       IN << v % LimbBase >> \o BigMulCarry(Tail(X), k, v \div LimbBase)

BigMulSmall(X, k) == IF k = 0 THEN << >> ELSE BigMulCarry(X, k, 0)

\* X * k^e
RECURSIVE BigMulPow(_, _, _)
BigMulPow(X, k, e) ==
  IF e = 0 THEN X ELSE BigMulPow(BigMulSmall(X, k), k, e - 1)

\* X <= Y, for normalised X and Y (no leading zero limb).
RECURSIVE BigLeqFrom(_, _, _)
BigLeqFrom(X, Y, i) ==
  IF i = 0 THEN TRUE
  ELSE IF X[i] # Y[i] THEN X[i] < Y[i]
  ELSE BigLeqFrom(X, Y, i - 1)

BigLeq(X, Y) ==
  IF Len(X) # Len(Y) THEN Len(X) < Len(Y) ELSE BigLeqFrom(X, Y, Len(X))

RECURSIVE Gcd(_, _)
Gcd(a, b) == IF b = 0 THEN a ELSE Gcd(b, a % b)

(***************************************************************************)
(* valuation.py : the annualised rate of compute_learned_rates             *)
(***************************************************************************)
DAYS_PER_YEAR == 365

\* The largest rate math.pow(ratio, 1.0 / years) - 1.0 is represented with;
\* the float holds larger ones, which the clamp maps to the same result.
RateCeiling == 10000

\* round(10000 * r) for r = (a/b)^(p/q): the s with
\* ((2s - 1) / 20000)^q <= (a/b)^p < ((2s + 1) / 20000)^q, found by bisection
\* on lo <= s < hi.
RECURSIVE RootSearch(_, _, _, _ ,_)
RootSearch(lo, hi, q, rhs, den) ==
  IF hi - lo <= 1 THEN lo
  ELSE LET mid == (lo + hi) \div 2
       IN IF BigLeq(BigMulPow(den, 2 * mid - 1, q), rhs)
          THEN RootSearch(mid, hi, q, rhs, den)
          ELSE RootSearch(lo, mid, q, rhs, den)

\* math.pow(mid1 / mid0, 1.0 / (days / 365.0)) - 1.0 in basis points, for
\* mid0 > 0, mid1 >= 0 and days > 0.
AnnualRate(mid0, mid1, days) ==
  LET g1  == Gcd(mid1, mid0)
      a   == mid1 \div g1
      b   == mid0 \div g1
      g2  == Gcd(DAYS_PER_YEAR, days)
      p   == DAYS_PER_YEAR \div g2
      q   == days \div g2
      den == BigMulPow(<< 1 >>, b, p)
      rhs == BigMulPow(BigMulPow(<< 1 >>, a, p), 2 * LimbBase, q)
      top == LimbBase + RateCeiling
  IN IF a = 0 THEN 0 - LimbBase
     ELSE IF BigLeq(BigMulPow(den, 2 * top - 1, q), rhs) THEN RateCeiling
     ELSE RootSearch(0, top, q, rhs, den) - LimbBase

\* Variant: no clamp.
Clamp_None(rate) == rate

\* max(-0.20, min(0.30, annual_rate))
Clamp(rate) == Max(0 - 2000, Min(3000, rate))

\* round(annual_rate, 4) of the clamped rate: basis points are 4 decimals.
LearnedRate(mid0, mid1, days) == Clamp(AnnualRate(mid0, mid1, days))

(***************************************************************************)
(* valuation.py : price snapshots and learned rates                        *)
(***************************************************************************)
\* None for a missing Reverb price.
NoValue == -1

Listing(brand, model, lo, hi) ==
  [ brand |-> brand, model |-> model, reverb_lo |-> lo, reverb_hi |-> hi ]

\* Active listings as read_active_listings returns them (prices in dollars).
ListingSet ==
  { Listing(<< " ", "Gibson" >>, << "LP" >>, 100, 100),
    Listing(<< "gibson" >>, << "lp", " " >>, 1000, 1000),
    Listing(<< "Gibson" >>, << "LP" >>, 100, 104),
    Listing(<< "Guild" >>, << "LP" >>, 0, 0) }

\* The sheets of active listings learn.py reads in the lookups' specification.
RateSheets ==
  { << Listing(<< "Gibson" >>, << "LP" >>, 100, 100),
       Listing(<< "Guild" >>, << " " >>, 100, 100),
       Listing(<< "Acme" >>, << "LP" >>, 100, 100) >>,
    << Listing(<< "gibson" >>, << "lp" >>, 100, 104),
       Listing(<< "Acme" >>, << "LP" >>, NoValue, 100),
       Listing(<< "Guild" >>, << "LP" >>, 100, 104) >> }

\* Arguments of appreciation_rate: a brand of each tier, years with and
\* without four digits in a row, a model or none.
QueryBrands == { << "Gibson" >>, << "Guild" >>, << "Acme" >> }

QueryYears ==
  { << "1", "9", "6", "2" >>, << "1", "9", "6" >>, << >>, << "9", "9", "9", "9" >> }

QueryModels == { << "LP" >>, << >> }

\* Arguments of compute_learned_rates (30 is the default and learn.py's).
MinDaysSet == { 30, 100 }

\* Days between two runs of the learn.py job, as the model spaces them.
DaySteps == { 73 }

\* The last day of the calendar.
LastDay == MaxAdvance * 73

ListsOf(S) == UNION { [ 1 .. n -> S ] : n \in 1 .. MaxListings }

EmptyHistory ==
  [ exists |-> FALSE, corrupt |-> FALSE, snapshots |-> << >>, learned_rates |-> << >> ]

\* history = {"snapshots": {}, "learned_rates": {}}, or the file's content.
LoadHistory(file) ==
  IF file.exists /\ ~ file.corrupt THEN file
  ELSE [ exists |-> TRUE, corrupt |-> FALSE, snapshots |-> << >>, learned_rates |-> << >> ]

\* The listing has both prices, a brand and a model.
HasSnapshotData(l) ==
  /\ l.reverb_lo # NoValue
  /\ l.reverb_hi # NoValue
  /\ Strip(l.brand) # << >>
  /\ Strip(l.model) # << >>

\* key = f"{brand.lower()}|{model.lower()}" of the stripped strings.
SnapshotKey(l) == KeyOf(Strip(l.brand), Strip(l.model))

\* round((lo + hi) / 2, 2), in cents.
MidCents(lo, hi) == 50 * (lo + hi)

\* Variant: no same-day test.
SameDay_Never(points, day) == FALSE

\* snapshots[key] and snapshots[key][-1]["date"] == today
SameDay(points, day) == points # << >> /\ points[Len(points)].date = day

\* The loop of snapshot_prices: [snapshots, count] after the listings.
RECURSIVE SnapshotLoop(_, _, _, _)
SnapshotLoop(snapshots, count, listings, day) ==
  IF listings = << >> THEN [ snapshots |-> snapshots, count |-> count ]
  ELSE LET l == Head(listings)
       IN IF ~HasSnapshotData(l)
          THEN SnapshotLoop(snapshots, count, Tail(listings), day)
          ELSE LET key    == SnapshotKey(l)
                   points == IF key \in DOMAIN snapshots THEN snapshots[key] ELSE << >>
                   withk  == [ k \in DOMAIN snapshots \cup { key } |->
                                 IF k = key THEN points ELSE snapshots[k] ]
                   point  == [ date |-> day, reverb_lo |-> l.reverb_lo,
                               reverb_hi |-> l.reverb_hi,
                               mid |-> MidCents(l.reverb_lo, l.reverb_hi) ]
               IN IF SameDay(points, day)
                  THEN SnapshotLoop(withk, count, Tail(listings), day)
                  ELSE SnapshotLoop([ withk EXCEPT ![key] = Append(points, point) ],
                                    count + 1, Tail(listings), day)

\* (d1 - d0).days of the first and the last snapshot.
SpanDays(points) == points[Len(points)].date - points[1].date

\* The keys the loop of compute_learned_rates stores a rate for.
RateKeys(snapshots, min_days) ==
  { key \in DOMAIN snapshots :
      /\ Len(snapshots[key]) >= 2
      /\ SpanDays(snapshots[key]) >= min_days
      /\ snapshots[key][1].mid > 0 }

\* learned: the table compute_learned_rates builds.
ComputeLearned(snapshots, min_days) ==
  [ key \in RateKeys(snapshots, min_days) |->
      LearnedRate(snapshots[key][1].mid,
                  snapshots[key][Len(snapshots[key])].mid,
                  SpanDays(snapshots[key])) ]

\* Variant: the new rates are merged into the old table.
StoreLearned_Merge(old, learned) ==
  [ key \in DOMAIN old \cup DOMAIN learned |->
      IF key \in DOMAIN learned THEN learned[key] ELSE old[key] ]

\* history["learned_rates"] = learned
StoreLearned(old, learned) == learned

\* Variant: earliest = points.pop(0).
SnapshotsAfterCompute_Pop(snapshots) ==
  [ key \in DOMAIN snapshots |->
      IF Len(snapshots[key]) >= 2 THEN Tail(snapshots[key]) ELSE snapshots[key] ]

\* The snapshots compute_learned_rates writes back with json.dump(history).
SnapshotsAfterCompute(snapshots) == snapshots

NoCache == [ loaded |-> FALSE, rates |-> << >> ]

\* _load_learned_rates: the cache after the call.
_load_learned_rates(cacheval, file) ==
  IF cacheval.loaded THEN cacheval
  ELSE [ loaded |-> TRUE,
         rates |-> IF file.exists /\ ~ file.corrupt THEN file.learned_rates ELSE << >> ]

NoQuery == [ brand |-> << >>, year |-> << >>, model |-> << >> ]

NoCall ==
  [ op |-> "none", ret |-> 0, min_days |-> 0, keys |-> {}, dropped |-> {},
    query |-> NoQuery, source |-> "none", again |-> FALSE, raised |-> FALSE,
    computed |-> FALSE, stale |-> FALSE ]

\* The history of the process a call record carries on: whether
\* compute_learned_rates has rewritten the rates in this process, and whether
\* the cache then held, loaded by an earlier call, other rates than the ones
\* written.
CarryOn(call) == [ call EXCEPT !.computed = last.computed, !.stale = last.stale ]

\* Variant: the cache is left as it is.
CacheAfterCompute_Kept(cacheval) == cacheval

\* compute_learned_rates: _learned_rates_cache = None
CacheAfterCompute(cacheval) == NoCache

\* The snapshots of every key together.
TotalSnapshots(file) ==
  LET RECURSIVE Sum(_)
      Sum(K) == IF K = {} THEN 0
                ELSE LET k == CHOOSE x \in K : TRUE
                     IN Len(file.snapshots[k]) + Sum(K \ { k })
  IN Sum(DOMAIN file.snapshots)

ValInit ==
  /\ today = 0
  /\ price_history = EmptyHistory
  /\ _learned_rates_cache = NoCache
  /\ last = NoCall

\* snapshot_prices(listings)
SnapshotPrices(listings) ==
  LET history == LoadHistory(price_history)
      out     == SnapshotLoop(history.snapshots, 0, listings, today)
      keys    == { SnapshotKey(listings[i]) :
                     i \in { j \in 1 .. Len(listings) : HasSnapshotData(listings[j]) } }
  IN /\ price_history' = [ history EXCEPT !.snapshots = out.snapshots ]
     /\ last' = CarryOn([ NoCall EXCEPT !.op = "snapshot", !.ret = out.count, !.keys = keys,
                    !.again = (last.op = "snapshot" /\ keys \subseteq last.keys) ])
     /\ UNCHANGED << today, _learned_rates_cache >>

\* compute_learned_rates(min_days)
ComputeLearnedRates(min_days) ==
  IF ~price_history.exists
  THEN /\ last' = CarryOn([ NoCall EXCEPT !.op = "compute", !.min_days = min_days,
                      !.again = (last.op = "compute" /\ last.min_days = min_days) ])
       /\ UNCHANGED << today, price_history, _learned_rates_cache >>
  ELSE IF price_history.corrupt
  THEN /\ last' = CarryOn([ NoCall EXCEPT !.op = "compute", !.min_days = min_days,
                      !.raised = TRUE ])
       /\ UNCHANGED << today, price_history, _learned_rates_cache >>
  ELSE LET learned == ComputeLearned(price_history.snapshots, min_days)
           table   == StoreLearned(price_history.learned_rates, learned)
       IN /\ price_history' =
               [ price_history EXCEPT
                   !.snapshots = SnapshotsAfterCompute(price_history.snapshots),
                   !.learned_rates = table ]
          /\ _learned_rates_cache' = CacheAfterCompute(_learned_rates_cache)
          /\ last' = [ NoCall EXCEPT !.op = "compute", !.min_days = min_days,
                         !.ret = Cardinality(DOMAIN learned),
                         !.dropped = DOMAIN price_history.learned_rates \ DOMAIN table,
                         !.again = (last.op = "compute" /\ last.min_days = min_days),
                         !.computed = TRUE,
                         !.stale = (_learned_rates_cache.loaded
                                      /\ _learned_rates_cache.rates # table) ]
          /\ UNCHANGED today

\* The calendar moves on to the day of the next run.
NextDay ==
  \E step \in DaySteps :
    /\ today + step <= LastDay
    /\ today' = today + step
    /\ last' = CarryOn([ NoCall EXCEPT !.op = "day" ])
    /\ UNCHANGED << price_history, _learned_rates_cache >>

\* appreciation_rate(brand, year, model), _load_learned_rates included.
AppreciationRate(brand, year, model) ==
  LET loaded  == _load_learned_rates(_learned_rates_cache, price_history)
      learned == IF model # << >> THEN loaded.rates ELSE << >>
  IN /\ _learned_rates_cache' = IF model # << >> THEN loaded ELSE _learned_rates_cache
     /\ last' = CarryOn([ NoCall EXCEPT
                    !.op = "rate",
                    !.query = [ brand |-> brand, year |-> year, model |-> model ],
                    !.ret = appreciation_rate(learned, brand, year, model),
                    !.source = IF UsesLearned(learned, brand, model)
                               THEN "learned" ELSE "static" ])
     /\ UNCHANGED << today, price_history >>

\* The process ends and another one starts: the module's cache is None again.
NewProcess ==
  /\ _learned_rates_cache.loaded
  /\ _learned_rates_cache' = NoCache
  /\ last' = [ NoCall EXCEPT !.op = "start" ]
  /\ UNCHANGED << today, price_history >>

\* A write of price_history.json is cut short (json.dump writes into the
\* open file): the file that held snapshots can no longer be parsed.
TruncateHistory ==
  /\ price_history.exists /\ ~ price_history.corrupt
  /\ price_history.snapshots # << >>
  /\ price_history' = [ price_history EXCEPT !.corrupt = TRUE ]
  /\ last' = CarryOn([ NoCall EXCEPT !.op = "truncate" ])
  /\ UNCHANGED << today, _learned_rates_cache >>

SnapshotAny == \E listings \in ListsOf(ListingSet) : SnapshotPrices(listings)

SnapshotSheet == \E listings \in RateSheets : SnapshotPrices(listings)

ComputeAny == \E min_days \in MinDaysSet : ComputeLearnedRates(min_days)

RateAny ==
  \E brand \in QueryBrands : \E year \in QueryYears : \E model \in QueryModels :
    AppreciationRate(brand, year, model)

(***************************************************************************)
(* Floats as exact fractions [num, den]; a fraction with den = 0 stands for *)
(* the ZeroDivisionError of the division that produced it                   *)
(***************************************************************************)
Abs(n) == IF n < 0 THEN 0 - n ELSE n

\* The fraction n/d in lowest terms with a positive denominator.
Rat(n, d) ==
  IF d = 0 THEN [ num |-> 1, den |-> 0 ]
  ELSE LET g == Gcd(Abs(n), Abs(d))
           sg == IF d < 0 THEN 0 - 1 ELSE 1
       IN [ num |-> sg * (n \div g), den |-> sg * (d \div g) ]

RatInt(n) == [ num |-> n, den |-> 1 ]

Raised(x) == x.den = 0

RatAdd(x, y) ==
  IF Raised(x) \/ Raised(y) THEN Rat(1, 0)
  ELSE Rat(x.num * y.den + y.num * x.den, x.den * y.den)

RatSub(x, y) ==
  IF Raised(x) \/ Raised(y) THEN Rat(1, 0)
  ELSE Rat(x.num * y.den - y.num * x.den, x.den * y.den)

RatMul(x, y) ==
  IF Raised(x) \/ Raised(y) THEN Rat(1, 0)
  ELSE Rat(x.num * y.num, x.den * y.den)

RatDiv(x, y) ==
  IF Raised(x) \/ Raised(y) THEN Rat(1, 0)
  ELSE Rat(x.num * y.den, x.den * y.num)

\* x <= y of two defined fractions.
RatLeq(x, y) == x.num * y.den <= y.num * x.den

RatMin(x, y) == IF Raised(x) \/ Raised(y) THEN Rat(1, 0) ELSE IF RatLeq(x, y) THEN x ELSE y

RatMax(x, y) == IF Raised(x) \/ Raised(y) THEN Rat(1, 0) ELSE IF RatLeq(x, y) THEN y ELSE x

(***************************************************************************)
(* scorer.py : the value score                                             *)
(***************************************************************************)
\* Variant: no floor under the score above the range.
ValueAbove_NoFloor(price, reverb_hi) ==
  RatSub(RatInt(50), RatMul(RatInt(50), Rat(price - reverb_hi, reverb_hi)))

\* overshoot = (price - reverb_hi) / reverb_hi; max(0.0, 50.0 - 50.0 * overshoot)
ValueAbove(price, reverb_hi) ==
  RatMax(RatInt(0),
         RatSub(RatInt(50), RatMul(RatInt(50), Rat(price - reverb_hi, reverb_hi))))

\* _score_value(price, reverb_lo, reverb_hi); mid is (lo + hi) / 2, so the
\* tests and the quotients are written with 2 * price and lo + hi.
_score_value(price, reverb_lo, reverb_hi) ==
  IF price = NoValue \/ reverb_lo = NoValue \/ reverb_hi = NoValue THEN RatInt(50)
  ELSE IF price <= reverb_lo THEN RatInt(100)
  ELSE IF 2 * price <= reverb_lo + reverb_hi
    THEN RatSub(RatInt(100),
                RatMul(RatInt(25), Rat(2 * (price - reverb_lo), reverb_hi - reverb_lo)))
  ELSE IF price <= reverb_hi
    THEN RatSub(RatInt(75),
                RatMul(RatInt(25), Rat(2 * price - reverb_lo - reverb_hi,
                                       reverb_hi - reverb_lo)))
  ELSE ValueAbove(price, reverb_hi)

\* Prices and market bounds of a listing; NoValue is an empty cell.
PriceValues == { NoValue } \cup 0 .. MaxPrice

NoValueCall ==
  [ price |-> NoValue, reverb_lo |-> NoValue, reverb_hi |-> NoValue, score |-> RatInt(50),
    called |-> FALSE ]

\* The value-score part of a listing: price and a market range low <= high,
\* or one without market data.
ValueEntries ==
  { [ price |-> p, reverb_lo |-> lo, reverb_hi |-> hi ] :
      p \in PriceValues, lo \in PriceValues, hi \in PriceValues }


\* s_val = _score_value(entry["price"], entry.get("reverb_lo"), entry.get("reverb_hi"))
ScoreValue ==
  /\ value_call' = [ price |-> entry.price, reverb_lo |-> entry.reverb_lo,
                     reverb_hi |-> entry.reverb_hi,
                     score |-> _score_value(entry.price, entry.reverb_lo, entry.reverb_hi),
                     called |-> TRUE ]
  /\ UNCHANGED entry

\* The listing's price cell changes between two scorer runs.
Reprice ==
  \E p \in PriceValues :
    /\ p # entry.price
    /\ entry' = [ entry EXCEPT !.price = p ]
    /\ UNCHANGED value_call

(***************************************************************************)
(* scorer.py : the condition score (condition strings are character        *)
(* strings)                                                                *)
(***************************************************************************)
\* _CONDITION_SCORES in the order the dict is written.
_CONDITION_SCORES ==
  << << "mint", 100 >>, << "near mint", 95 >>, << "excellent+", 90 >>,
     << "excellent", 85 >>, << "excellent-", 80 >>, << "very good+", 70 >>,
     << "very good", 60 >>, << "very good-", 50 >>, << "good+", 40 >>,
     << "good", 30 >>, << "good-", 20 >>, << "fair", 10 >>, << "poor", 0 >> >>

\* The tests of the partial-match loop for one key.
ConditionKeyMatches(key, normalized) ==
  \/ StrIn(StrReplace(StrReplace(key, "+", " plus"), "-", " minus"), normalized)
  \/ StrIn(normalized, key)
  \/ StrIn(key, normalized)

\* _score_condition(condition_str)
_score_condition(condition_str) ==
  LET normalized == StrLower(StrStrip(condition_str))
      exact == { i \in 1 .. Len(_CONDITION_SCORES) : _CONDITION_SCORES[i][1] = normalized }
      part  == { i \in 1 .. Len(_CONDITION_SCORES) :
                   ConditionKeyMatches(_CONDITION_SCORES[i][1], normalized) }
  IN IF condition_str = "" THEN RatInt(50)
     ELSE IF exact # {} THEN RatInt(_CONDITION_SCORES[CHOOSE i \in exact : TRUE][2])
     ELSE IF part # {}
       THEN RatInt(_CONDITION_SCORES[CHOOSE i \in part : \A k \in part : i <= k][2])
     ELSE RatInt(50)

(***************************************************************************)
(* scorer.py : the knowledge base, the appreciation, fit and iconic scores *)
(*                                                                         *)
(* A listing's brand and model are token sequences (as in valuation.py);   *)
(* Join gives the character string they spell.  The knowledge base files   *)
(* hold character strings.                                                 *)
(***************************************************************************)
RECURSIVE Join(_)
Join(tokens) == IF tokens = << >> THEN "" ELSE Head(tokens) \o Join(Tail(tokens))

IsLetter(c) == c \in LowerSet

\* set(re.split(r"[^a-z]+", str)) - {""}: the maximal runs of letters.
Words(str) ==
  { SubSeq(str, r[1], r[2]) :
      r \in { ij \in (1 .. Len(str)) \X (1 .. Len(str)) :
                /\ ij[1] <= ij[2]
                /\ \A k \in ij[1] .. ij[2] : IsLetter(SubSeq(str, k, k))
                /\ (ij[1] = 1 \/ ~IsLetter(SubSeq(str, ij[1] - 1, ij[1] - 1)))
                /\ (ij[2] = Len(str) \/ ~IsLetter(SubSeq(str, ij[2] + 1, ij[2] + 1))) } }

\* The loop of _match_iconic_model: the indexes of the entries that match.
IconicMatches(iconic, brand, model) ==
  { i \in 1 .. Len(iconic) :
      /\ Words(StrLower(brand)) \cap Words(StrLower(iconic[i].brand)) # {}
      /\ \/ StrIn(StrLower(iconic[i].model), StrLower(model))
         \/ StrIn(StrLower(model), StrLower(iconic[i].model)) }

NoIconic == [ brand |-> "", model |-> "", boost |-> 0, golden_era |-> << >>, found |-> FALSE ]

\* _match_iconic_model(brand, model): the first of the longest matches, or None.
_match_iconic_model(iconic, brand, model) ==
  LET hits == { i \in IconicMatches(iconic, brand, model) : Len(iconic[i].model) > 0 }
  IN IF hits = {} THEN NoIconic
     ELSE LET best == CHOOSE i \in hits :
                        \A k \in hits :
                          \/ Len(iconic[k].model) < Len(iconic[i].model)
                          \/ (Len(iconic[k].model) = Len(iconic[i].model) /\ i <= k)
          IN [ brand |-> iconic[best].brand, model |-> iconic[best].model,
               boost |-> iconic[best].boost, golden_era |-> iconic[best].golden_era,
               found |-> TRUE ]

\* min(100.0, rate / 0.12 * 100), the rate in basis points.
RateScore(rate) == RatMin(RatInt(100), Rat(rate, 12))

\* _score_appreciation(brand, year, model), given the learned table.
_score_appreciation(learned, iconic, brand, year, model) ==
  LET rate  == appreciation_rate(learned, brand, year, model)
      score == RateScore(rate)
      match == _match_iconic_model(iconic, Join(brand), Join(model))
      yr    == _parse_year(year)
  IN IF /\ match.found
        /\ yr # NoYear /\ yr # 0
        /\ match.golden_era # << >>
        /\ match.golden_era[1] <= yr /\ yr <= match.golden_era[2]
     THEN RatMin(RatInt(100), RatAdd(score, RatInt(20)))
     ELSE score

\* Variant: the score leaves _score_fit without the clamp.
ClampScore_None(score) == score

\* max(0, min(100, score))
ClampScore(score) == Max(0, Min(100, score))

\* The points _score_fit adds to 50 for the brand and the model.
FitBrandPoints(listing, collection) ==
  LET brand_l == StrLower(Join(listing.brand))
      model_l == StrLower(Join(listing.model))
  IN IF \E i \in 1 .. Len(collection) :
          /\ StrLower(collection[i].brand) = brand_l
          /\ StrLower(collection[i].model) = model_l
     THEN 0 - 25
     ELSE IF \A i \in 1 .. Len(collection) : StrLower(collection[i].brand) # brand_l
     THEN 20
     ELSE 0

\* The points _score_fit adds for the type: type_count / len(collection) < 0.25.
FitTypePoints(listing, collection) ==
  LET type_l     == StrLower(listing.type)
      type_count == Cardinality({ i \in 1 .. Len(collection) :
                                    StrLower(collection[i].type) = type_l })
  IN IF type_l # "" /\ 4 * type_count < Len(collection) THEN 15 ELSE 0

\* _score_fit(entry, collection), the entry called listing here.
_score_fit(iconic, listing, collection) ==
  LET match == _match_iconic_model(iconic, Join(listing.brand), Join(listing.model))
      boost == IF match.found THEN match.boost ELSE 0
  IN IF collection = << >> THEN ClampScore(50 + boost)
     ELSE ClampScore(50 + FitBrandPoints(listing, collection)
                        + FitTypePoints(listing, collection) + boost)

\* No _score_fit call yet.
NoFitCall == [ called |-> FALSE, listing |-> << >>, collection |-> << >>, score |-> 0 ]

\* The (brand, model, weight) of every guitar of every guitarist, in file order.
RECURSIVE GuitarWeights(_)
GuitarWeights(guitarists) ==
  IF guitarists = << >> THEN << >>
  ELSE [ i \in 1 .. Len(Head(guitarists).guitars) |->
           [ brand  |-> StrLower(Head(guitarists).guitars[i][1]),
             model  |-> StrLower(Head(guitarists).guitars[i][2]),
             weight |-> Rat(101 - Head(guitarists).rank, 100) ] ]
         \o GuitarWeights(Tail(guitarists))

\* model_scores[key]: the weights of a key added up.
RECURSIVE ModelScore(_, _, _)
ModelScore(flat, brand_l, model_l) ==
  IF flat = << >> THEN RatInt(0)
  ELSE RatAdd(IF Head(flat).brand = brand_l /\ Head(flat).model = model_l
              THEN Head(flat).weight ELSE RatInt(0),
              ModelScore(Tail(flat), brand_l, model_l))

\* max(model_scores.values()) if model_scores else 1.0
MaxModelScore(flat) ==
  IF flat = << >> THEN RatInt(1)
  ELSE LET best == CHOOSE i \in 1 .. Len(flat) :
                     \A k \in 1 .. Len(flat) :
                       RatLeq(ModelScore(flat, flat[k].brand, flat[k].model),
                              ModelScore(flat, flat[i].brand, flat[i].model))
       IN ModelScore(flat, flat[best].brand, flat[best].model)

\* _score_iconic(brand, model), given top_guitarists.json.
_score_iconic(guitarists, brand, model) ==
  LET flat    == GuitarWeights(guitarists)
      brand_l == StrLower(Join(brand))
      model_l == StrLower(Join(model))
      hits    == { i \in 1 .. Len(flat) :
                     /\ Words(brand_l) \cap Words(flat[i].brand) # {}
                     /\ (StrIn(flat[i].model, model_l) \/ StrIn(model_l, flat[i].model))
                     /\ Len(flat[i].model) > 0 }
      Share(b, m) == RatMin(RatInt(100),
                            RatMul(RatDiv(ModelScore(flat, b, m), MaxModelScore(flat)),
                                   RatInt(100)))
  IN IF guitarists = << >> THEN RatInt(50)
     ELSE IF \E i \in 1 .. Len(flat) : flat[i].brand = brand_l /\ flat[i].model = model_l
       THEN Share(brand_l, model_l)
     ELSE IF hits # {}
       THEN LET best == CHOOSE i \in hits :
                          \A k \in hits :
                            \/ Len(flat[k].model) < Len(flat[i].model)
                            \/ (Len(flat[k].model) = Len(flat[i].model) /\ i <= k)
            IN Share(flat[best].brand, flat[best].model)
     ELSE RatInt(0)

(***************************************************************************)
(* scorer.py : score_listing.  Weights and ml_blend are in hundredths, the *)
(* sub-scores exact fractions.                                             *)
(***************************************************************************)
\* round(x, 1) of the exact value: the nearest tenth, a tie going to the even
\* tenth (on binary floats a value printed as a tie lies on either side of it).
Round1(x) ==
  LET n == 10 * x.num
      q == n \div x.den
      r == n % x.den
  IN IF 2 * r < x.den THEN Rat(q, 10)
     ELSE IF 2 * r > x.den THEN Rat(q + 1, 10)
     ELSE IF q % 2 = 0 THEN Rat(q, 10)
     ELSE Rat(q + 1, 10)

\* The keys score_listing reads from budget["weights"], with the breakdown
\* entry each one weighs.
WeightKeys == << "value", "appreciate", "fit", "condition", "iconic" >>

\* w["value"], w["appreciate"], w["fit"] are read without a test.
CoreWeightKeys == { "value", "appreciate", "fit" }

\* The five sub-scores of a listing, in the order of WeightKeys.
SubScores(listing, collection, kb) ==
  << _score_value(listing.price, listing.reverb_lo, listing.reverb_hi),
     _score_appreciation(kb.learned, kb.iconic, listing.brand, listing.year, listing.model),
     RatInt(_score_fit(kb.iconic, listing, collection)),
     _score_condition(listing.condition),
     _score_iconic(kb.guitarists, listing.brand, listing.model) >>

\* Variant: every dimension is summed, a missing weight counting as 0.2.
RuleTotal_AllDimensions(w, scores) ==
  LET RECURSIVE Sum(_)
      Sum(i) == IF i = 0 THEN RatInt(0)
                ELSE RatAdd(Sum(i - 1),
                            RatMul(Rat(IF WeightKeys[i] \in DOMAIN w THEN w[WeightKeys[i]] ELSE 20,
                                       100), scores[i]))
  IN Sum(5)

\* rule_total: the three core dimensions, then condition and iconic when
\* their key is in w.
RuleTotal(w, scores) ==
  LET RECURSIVE Sum(_)
      Sum(i) == IF i = 0 THEN RatInt(0)
                ELSE IF WeightKeys[i] \in DOMAIN w
                THEN RatAdd(Sum(i - 1), RatMul(Rat(w[WeightKeys[i]], 100), scores[i]))
                ELSE Sum(i - 1)
  IN Sum(5)

\* ml_predict.get_learned_weights() when nothing was learned.
NoWeights == << >>

\* ml_score_listing(...)["ml_total"]: the learned weights over the rounded
\* sub-scores, a key missing from them counting 0.2; None (no total) unless
\* the weight optimizer is loaded and has weights.
NoTotal == [ num |-> 0, den |-> 0 ]

MlTotal(ml, scores) ==
  LET RECURSIVE Sum(_)
      Sum(i) == IF i = 0 THEN RatInt(0)
                ELSE RatAdd(Sum(i - 1),
                            RatMul(Rat(IF WeightKeys[i] \in DOMAIN ml.weights
                                       THEN ml.weights[WeightKeys[i]] ELSE 20, 100),
                                   Round1(scores[i])))
  IN IF "weight_optimizer" \in ml.cache /\ ml.weights # NoWeights
     THEN Round1(Sum(5))
     ELSE NoTotal

\* budget.get("ml_blend", 0.3)
DEFAULT_ML_BLEND == 30

MlBlend(budget) == IF budget.ml_blend = NoValue THEN DEFAULT_ML_BLEND ELSE budget.ml_blend

\* Variant: the blend is applied whenever ML is enabled, a missing ML total
\* counting as 0.
Blend_Always(budget, ml, rule_total, ml_total) ==
  IF budget.ml_enabled
  THEN RatAdd(RatMul(Rat(100 - MlBlend(budget), 100), rule_total),
              RatMul(Rat(MlBlend(budget), 100),
                     IF ml_total = NoTotal THEN RatInt(0) ELSE ml_total))
  ELSE rule_total

\* total: (1 - ml_blend) * rule_total + ml_blend * ml_total when ML is
\* enabled, the module imported, a model loaded and an ML total returned.
Blend(budget, ml, rule_total, ml_total) ==
  IF budget.ml_enabled /\ ml.module /\ ml.cache # {} /\ ml_total # NoTotal
  THEN RatAdd(RatMul(Rat(100 - MlBlend(budget), 100), rule_total),
              RatMul(Rat(MlBlend(budget), 100), ml_total))
  ELSE rule_total

\* What a score_listing call that raised leaves the caller with.
ScoreRaised(scores, exception) ==
  [ raised |-> TRUE, exception |-> exception, total |-> RatInt(0),
    rule_total |-> RatInt(0), ml_total |-> NoTotal, scores |-> scores ]

\* score_listing from line 417 on: the breakdown and the total, given the
\* sub-scores, the rule total and the ML total.
ScoreResult(budget, ml, scores, rule_total, ml_total) ==
  [ raised     |-> FALSE,
    exception  |-> "none",
    total      |-> Round1(Blend(budget, ml, rule_total, ml_total)),
    rule_total |-> rule_total,
    ml_total   |-> ml_total,
    scores     |-> scores ]

\* score_listing from line 397 on, given the five sub-scores.
ScoreTotals(budget, ml, scores) ==
  IF \E i \in 1 .. 5 : Raised(scores[i]) THEN ScoreRaised(scores, "ZeroDivisionError")
  ELSE IF ~ (CoreWeightKeys \subseteq DOMAIN budget.weights)
    THEN ScoreRaised(scores, "KeyError")
  ELSE ScoreResult(budget, ml, scores, RuleTotal(budget.weights, scores),
                   IF budget.ml_enabled /\ ml.module /\ ml.cache # {}
                   THEN MlTotal(ml, scores) ELSE NoTotal)

\* score_listing(entry, collection, budget), given the knowledge base and
\* the state of ml_predict after _ensure_loaded.
score_listing(listing, collection, budget, kb, ml) ==
  ScoreTotals(budget, ml, SubScores(listing, collection, kb))

(***************************************************************************)
(* ml_predict.py : the lazily loaded models                                *)
(***************************************************************************)
MODEL_NAMES ==
  << "weight_optimizer", "price_predictor", "appreciation_predictor", "buy_classifier" >>

\* A file of models_dir: "missing"; "ok"; "broken" (joblib.load raises, or
\* json.load raises JSONDecodeError or open raises OSError); "bad_bytes" (a
\* meta file that is not UTF-8 text: json.load raises UnicodeDecodeError).
NoModelFiles == [ model |-> "missing", meta |-> "missing", learned_weights |-> NoWeights ]

NoFileReads == [ i \in 1 .. Len(MODEL_NAMES) |-> [ model |-> 0, meta |-> 0 ] ]

\* if _load_attempted: return
LoadNeeded(attempted) == ~ attempted

\* The loop of _ensure_loaded from the i-th name on: what it adds to the two
\* caches and the files it reads, up to the name whose meta file raises.
RECURSIVE LoadLoop(_, _, _)
LoadLoop(dir, i, st) ==
  IF i > Len(MODEL_NAMES) THEN st
  ELSE LET name   == MODEL_NAMES[i]
           f      == dir[i]
           cache1 == IF f.model = "ok" THEN st.cache \cup { name } ELSE st.cache
           reads1 == IF f.model # "missing"
                     THEN [ st.reads EXCEPT ![i].model = @ + 1 ] ELSE st.reads
           reads2 == IF f.meta # "missing"
                     THEN [ reads1 EXCEPT ![i].meta = @ + 1 ] ELSE reads1
           meta1  == IF f.meta = "ok"
                     THEN [ n \in DOMAIN st.meta \cup { name } |->
                              IF n = name THEN [ learned_weights |-> f.learned_weights ]
                              ELSE st.meta[n] ]
                     ELSE st.meta
       IN IF f.meta = "bad_bytes"
          THEN [ cache |-> cache1, meta |-> st.meta, reads |-> reads2, raised |-> TRUE ]
          ELSE LoadLoop(dir, i + 1,
                        [ cache |-> cache1, meta |-> meta1, reads |-> reads2,
                          raised |-> FALSE ])

\* _ensure_loaded(): the state of the module after the call, and whether the
\* call raised.
_ensure_loaded(st) ==
  IF ~ LoadNeeded(st.attempted) THEN [ st EXCEPT !.raised = FALSE ]
  ELSE IF ~ st.joblib THEN [ st EXCEPT !.attempted = TRUE, !.raised = FALSE ]
  ELSE LET out == LoadLoop(st.dir, 1, [ cache |-> st.cache, meta |-> st.meta,
                                         reads |-> st.reads, raised |-> FALSE ])
       IN [ st EXCEPT !.attempted = TRUE, !.cache = out.cache, !.meta = out.meta,
                      !.reads = out.reads, !.raised = out.raised ]

\* The module state of ml_predict the operators work on.
MlState ==
  [ attempted |-> _load_attempted, joblib |-> joblib, dir |-> models_dir,
    cache |-> _model_cache, meta |-> _meta_cache, reads |-> file_reads,
    raised |-> FALSE ]

\* get_learned_weights() on a loaded module: meta.get("learned_weights").
get_learned_weights(st) ==
  IF "weight_optimizer" \in DOMAIN st.meta
  THEN st.meta["weight_optimizer"].learned_weights
  ELSE NoWeights

\* What score_listing sees of ml_predict.
MlView(st) ==
  [ module |-> ml_module, cache |-> st.cache, weights |-> get_learned_weights(st) ]

\* The module state written back.
SetMlState(st) ==
  /\ _load_attempted' = st.attempted
  /\ _model_cache' = st.cache
  /\ _meta_cache' = st.meta
  /\ file_reads' = st.reads

(***************************************************************************)
(* scorer.py : the inputs of score_listing and the calls                   *)
(***************************************************************************)
ScoreEntry(brand, model, year, type, condition, price, lo, hi) ==
  [ brand |-> brand, model |-> model, year |-> year, type |-> type,
    condition |-> condition, price |-> price, reverb_lo |-> lo, reverb_hi |-> hi ]

\* Rows of the Listings sheet as read_active_listings returns them: complete
\* ones, one with every optional cell empty, one whose market bounds are 0.
ScoreEntries ==
  { ScoreEntry(<< "Gibson" >>, << "LP" >>, << "1", "9", "5", "9" >>, "Electric",
               "Excellent", 5, 4, 8),
    ScoreEntry(<< "Gibson" >>, << "LP" >>, << >>, "", "", NoValue, NoValue, NoValue),
    ScoreEntry(<< "Guild" >>, << "X" >>, << "1", "9", "6" >>, "Acoustic", "VG", 8, 0, 0),
    ScoreEntry(<< "Acme" >>, << >>, << "c", "a", " ", "1", "9", "9", "0" >>, "electric",
               " ", 3, 4, NoValue),
    ScoreEntry(<< "Fender" >>, << "Strat" >>, << "1", "9", "6", "2" >>, "Electric",
               "Mint", 2, 4, 8),
    ScoreEntry(<< "Acme" >>, << "Z" >>, << "2", "0", "1", "0" >>, "Bass", "Good", 8, 2, 4) }

Owned(brand, model, type) == [ brand |-> brand, model |-> model, type |-> type ]

\* collection.json: none, one guitar, five guitars of which one acoustic.
Collections ==
  { << >>,
    << Owned("Gibson", "LP", "Electric") >>,
    << Owned("gibson", "lp", "Electric"), Owned("Fender", "Strat", "Electric"),
       Owned("Fender", "Tele", "electric"), Owned("Gibson", "SG", "Electric"),
       Owned("Martin", "D", "Acoustic") >> }

Budget(weights, ml_enabled, ml_blend) ==
  [ weights |-> weights, ml_enabled |-> ml_enabled, ml_blend |-> ml_blend, top_n |-> 2 ]

\* budget.json: five, four and three dimensions, a map without "value",
\* ML enabled with the default and with an explicit blend.
Weights5 ==
  [ k \in { "value", "appreciate", "fit", "condition", "iconic" } |->
      IF k = "value" THEN 30 ELSE IF k = "appreciate" THEN 25
      ELSE IF k = "fit" THEN 20 ELSE IF k = "condition" THEN 15 ELSE 10 ]

\* The weights of _DEFAULT_BUDGET.
Weights4 ==
  [ k \in { "value", "appreciate", "fit", "condition" } |->
      IF k = "value" THEN 30 ELSE IF k = "condition" THEN 20 ELSE 25 ]

Weights3 == [ k \in { "value", "appreciate", "fit" } |-> IF k = "value" THEN 40 ELSE 30 ]

WeightsNoValue == [ k \in { "appreciate", "fit", "iconic" } |-> IF k = "iconic" THEN 20 ELSE 40 ]

Budgets ==
  { Budget(Weights5, FALSE, NoValue), Budget(Weights5, TRUE, NoValue),
    Budget(Weights5, TRUE, 50), Budget(Weights4, TRUE, 50),
    Budget(Weights3, FALSE, 50), Budget(WeightsNoValue, FALSE, NoValue) }

Iconic(brand, model, boost, golden_era) ==
  [ brand |-> brand, model |-> model, boost |-> boost, golden_era |-> golden_era ]

IconicModels ==
  << Iconic("Gibson", "LP", 20, << 1958, 1960 >>), Iconic("Fender", "Strat", 15, << >>) >>

Guitarist(rank, guitars) == [ rank |-> rank, guitars |-> guitars ]

TopGuitarists ==
  << Guitarist(1, << << "Fender", "Strat" >> >>),
     Guitarist(2, << << "Gibson", "LP" >>, << "Fender", "Strat" >> >>) >>

Knowledge(iconic, guitarists, learned) ==
  [ iconic |-> iconic, guitarists |-> guitarists, learned |-> learned ]

\* The knowledge files present or not, and learned rates at both ends of
\* the range compute_learned_rates keeps.
KnowledgeBases ==
  { Knowledge(<< >>, << >>, << >>),
    Knowledge(IconicModels, TopGuitarists, << >>),
    Knowledge(IconicModels, TopGuitarists,
              (KeyOf(<< "Gibson" >>, << "LP" >>) :> (0 - 2000))),
    Knowledge(IconicModels, << >>,
              (KeyOf(<< "Fender" >>, << "Strat" >>) :> 3000)) }

ModelFiles(model, meta, learned_weights) ==
  [ model |-> model, meta |-> meta, learned_weights |-> learned_weights ]

\* data/ml/models with the files of the first model set, the others missing.
ModelsDir(first) ==
  [ i \in 1 .. Len(MODEL_NAMES) |-> IF i = 1 THEN first ELSE NoModelFiles ]

LearnedWeights ==
  [ k \in { "value", "appreciate", "fit", "condition" } |->
      IF k = "value" THEN 50 ELSE IF k = "appreciate" THEN 10 ELSE 20 ]

\* What ml_train left on disk: nothing; a weight optimizer with learned
\* weights; one without; a model that does not load; a second model only;
\* a meta file that is not text.
ModelDirs ==
  { ModelsDir(NoModelFiles),
    ModelsDir(ModelFiles("ok", "ok", LearnedWeights)),
    ModelsDir(ModelFiles("ok", "ok", NoWeights)),
    ModelsDir(ModelFiles("broken", "ok", LearnedWeights)),
    ModelsDir(ModelFiles("ok", "broken", NoWeights)),
    [ i \in 1 .. Len(MODEL_NAMES) |->
        IF i = 2 THEN ModelFiles("ok", "missing", NoWeights) ELSE NoModelFiles ],
    [ i \in 1 .. Len(MODEL_NAMES) |->
        IF i = 2 THEN ModelFiles("ok", "bad_bytes", NoWeights)
        ELSE IF i = 1 THEN ModelFiles("ok", "ok", LearnedWeights)
        ELSE IF i = 3 THEN ModelFiles("ok", "ok", NoWeights)
        ELSE NoModelFiles ] }

\* A process: ml_predict importable or not, joblib installed or not, and the
\* models directory it finds.
MlEnvironments ==
  { << TRUE, TRUE, d >> : d \in ModelDirs }
    \cup { << FALSE, TRUE, ModelsDir(ModelFiles("ok", "ok", LearnedWeights)) >>,
            << TRUE, FALSE, ModelsDir(ModelFiles("ok", "ok", LearnedWeights)) >> }

NoScored ==
  [ called |-> FALSE, raised |-> FALSE, exception |-> "none", total |-> RatInt(0),
    rule_total |-> RatInt(0),
    ml_total |-> NoTotal, scores |-> << >>, entry |-> << >>, ml |-> << >> ]

\* No run of the scorer yet.
NoRun == [ ran |-> FALSE, raised |-> FALSE, written |-> FALSE, top |-> << >>,
           scored |-> << >>, sheet |-> << >>, top_n |-> 0 ]

NoMlCall == [ op |-> "none", raised |-> FALSE, ret |-> << >>, loaded |-> FALSE ]

MlInit ==
  /\ ml_module = TRUE
  /\ joblib = TRUE
  /\ models_dir = ModelsDir(NoModelFiles)
  /\ _model_cache = {}
  /\ _meta_cache = << >>
  /\ _load_attempted = FALSE
  /\ file_reads = NoFileReads
  /\ ml_call = NoMlCall

ListInit ==
  /\ collection_json = << >>
  /\ budget_json = Budget(Weights5, FALSE, NoValue)
  /\ knowledge = Knowledge(<< >>, << >>, << >>)
  /\ scored = NoScored
  /\ recommendations = NoRun

\* What a score_listing call leaves: the state st of ml_predict and the
\* result out.
ScoreListingReturn(st, out) ==
  /\ SetMlState(st)
  /\ scored' = [ called     |-> TRUE,
                 raised     |-> st.raised \/ out.raised,
                 exception  |-> IF out.raised THEN out.exception
                                ELSE IF st.raised THEN "UnicodeDecodeError"
                                ELSE "none",
                 total      |-> out.total,
                 rule_total |-> out.rule_total,
                 ml_total   |-> out.ml_total,
                 scores     |-> out.scores,
                 entry      |-> entry,
                 ml         |-> MlView(st) ]
  /\ UNCHANGED << entry, value_call, fit_call, collection_json, budget_json, knowledge,
                  recommendations, ml_module, joblib, models_dir, ml_call >>

\* score_listing in the process whose ml_predict is in state st.
ScoreListingIn(st) ==
  ScoreListingReturn(st, score_listing(entry, collection_json, budget_json, knowledge,
                                       MlView(st)))

\* Line 418 is reached (no exception before it) and calls is_ml_available().
ReachesMl ==
  /\ budget_json.ml_enabled
  /\ ml_module
  /\ ~ score_listing(entry, collection_json, budget_json, knowledge, MlView(MlState)).raised

\* score_listing(entry, collection, budget): with ML enabled and the module
\* imported, a call that gets as far as line 418 goes through
\* is_ml_available(), hence _ensure_loaded().
ScoreListing ==
  ScoreListingIn(IF ReachesMl THEN _ensure_loaded(MlState) ELSE MlState)

(***************************************************************************)
(* ml_predict.py : the calls of the module                                 *)
(***************************************************************************)
\* The result of a call into ml_predict: raised when _ensure_loaded raised,
\* loaded when this call ran the loading loop.
MlCall(op, st, ret) ==
  /\ SetMlState(st)
  /\ ml_call' = [ op |-> op, raised |-> st.raised,
                  ret |-> IF st.raised THEN << >> ELSE ret,
                  loaded |-> ~ _load_attempted ]
  /\ UNCHANGED << ml_module, joblib, models_dir >>

\* is_ml_available()
IsMlAvailable ==
  LET st == _ensure_loaded(MlState)
  IN MlCall("is_ml_available", st, << st.cache # {} >>)

\* active_model_count()
ActiveModelCount ==
  LET st == _ensure_loaded(MlState)
  IN MlCall("active_model_count", st, << Cardinality(st.cache) >>)

\* get_model_status(): per model name, "available".
GetModelStatus ==
  LET st == _ensure_loaded(MlState)
  IN MlCall("get_model_status", st,
            [ i \in 1 .. Len(MODEL_NAMES) |-> MODEL_NAMES[i] \in st.cache ])

\* get_learned_weights()
GetLearnedWeights ==
  LET st == _ensure_loaded(MlState)
  IN MlCall("get_learned_weights", st, << get_learned_weights(st) >>)

\* The rule sub-scores ml_monitor hands to ml_score_listing.
SampleRuleScores == << RatInt(100), Rat(250, 3), RatInt(70), RatInt(85), RatInt(0) >>

\* ml_score_listing(entry, collection, budget, rule_scores): None without a
\* model, else the result with its "ml_total".
MlScoreListing ==
  LET st == _ensure_loaded(MlState)
  IN MlCall("ml_score_listing", st,
            IF st.cache = {} THEN << "None" >>
            ELSE << MlTotal([ module |-> TRUE, cache |-> st.cache,
                              weights |-> get_learned_weights(st) ], SampleRuleScores) >>)

\* ml_train.py, run in between, leaves other files in the models directory.
TrainModels ==
  \E d \in ModelDirs :
    /\ d # models_dir
    /\ models_dir' = d
    /\ UNCHANGED << ml_module, joblib, _model_cache, _meta_cache, _load_attempted,
                    file_reads, ml_call >>

(***************************************************************************)
(* scorer.py : run                                                         *)
(***************************************************************************)
\* A row of the Listings sheet: the product id of its URL (NoValue when the
\* URL has none), the On Hold and Sold Date cells (filled or not), and the
\* cells score_listing reads.
SheetRow(id, on_hold, sold, listing) ==
  [ id |-> id, on_hold |-> on_hold, sold |-> sold, listing |-> listing ]

\* read_active_listings(): the rows with a product id and neither mark, in
\* sheet order, as row numbers.
RECURSIVE read_active_listings(_, _)
read_active_listings(sheet, i) ==
  IF i > Len(sheet) THEN << >>
  ELSE (IF sheet[i].id # NoValue /\ ~ sheet[i].on_hold /\ ~ sheet[i].sold
        THEN << i >> ELSE << >>)
       \o read_active_listings(sheet, i + 1)

\* Variant: the list is sorted from the lowest total up.
TotalBefore_Ascending(a, b) == RatLeq(a, b) /\ a # b

\* a goes before b in scored.sort(key=lambda x: x[1], reverse=True).
TotalBefore(a, b) == RatLeq(b, a) /\ a # b

\* list.sort is stable: an element goes after the elements it does not beat.
RECURSIVE SortScored(_)
SortScored(list) ==
  IF list = << >> THEN << >>
  ELSE LET rest == SortScored(SubSeq(list, 1, Len(list) - 1))
           x    == list[Len(list)]
           ahead == { k \in 1 .. Len(rest) : ~ TotalBefore(x.total, rest[k].total) }
           n    == IF ahead = {} THEN 0 ELSE CHOOSE k \in ahead : \A j \in ahead : j <= k
       IN SubSeq(rest, 1, n) \o << x >> \o SubSeq(rest, n + 1, Len(rest))

\* scored[:top_n]
SliceTo(list, n) ==
  IF n >= 0 THEN SubSeq(list, 1, Min(n, Len(list)))
  ELSE SubSeq(list, 1, Max(0, Len(list) + n))

\* run() from line 588 on: the scored list is sorted and its first top_n
\* entries are written; nothing is written when a call raised.
RunWrite(st, list, raised) ==
  /\ SetMlState(st)
  /\ recommendations' =
       IF raised
       THEN [ recommendations EXCEPT !.ran = TRUE, !.raised = TRUE ]
       ELSE [ ran |-> TRUE, raised |-> FALSE, written |-> TRUE,
              top |-> SliceTo(SortScored(list), budget_json.top_n),
              scored |-> list, sheet |-> ledger, top_n |-> budget_json.top_n ]
  /\ UNCHANGED << entry, value_call, fit_call, collection_json, budget_json, knowledge,
                  scored, ml_module, joblib, models_dir, ml_call >>

\* The loop of lines 583-586 over the listings, in a process whose
\* ml_predict is in state st.
RunScore(st, listings, results) ==
  RunWrite(st,
           [ k \in 1 .. Len(listings) |->
               [ row |-> listings[k], total |-> results[k].total ] ],
           st.raised \/ \E k \in 1 .. Len(listings) : results[k].raised)

\* run() with active listings: the ML status line calls is_ml_available()
\* (line 572), then every listing is scored.
RunListings(st, listings) ==
  RunScore(st, listings,
           [ k \in 1 .. Len(listings) |->
               score_listing(ledger[listings[k]].listing, collection_json,
                             budget_json, knowledge, MlView(st)) ])

\* run(): the scorer reads the budget, the collection and the active rows,
\* scores each row, sorts and writes the first top_n to the Recommendations
\* sheet; without active rows it returns at once.
Run ==
  IF read_active_listings(ledger, 1) = << >>
  THEN /\ recommendations' = [ recommendations EXCEPT !.ran = TRUE, !.raised = FALSE ]
       /\ UNCHANGED << entry, value_call, fit_call, collection_json, budget_json,
                       knowledge, scored, mlVars >>
  ELSE RunListings(IF budget_json.ml_enabled /\ ml_module
                   THEN _ensure_loaded(MlState) ELSE MlState,
                   read_active_listings(ledger, 1))

\* The rows the crawler has appended to the sheet.
RunSheet ==
  << SheetRow(1, FALSE, FALSE,
              ScoreEntry(<< "Gibson" >>, << "LP" >>, << "1", "9", "5", "9" >>, "Electric",
                         "Excellent", 5, 4, 8)),
     SheetRow(2, FALSE, FALSE,
              ScoreEntry(<< "Fender" >>, << "Strat" >>, << "1", "9", "6", "2" >>, "Electric",
                         "Mint", 2, 4, 8)),
     SheetRow(NoValue, FALSE, FALSE,
              ScoreEntry(<< "Fender" >>, << "Strat" >>, << "1", "9", "6", "2" >>, "Electric",
                         "Mint", 2, 4, 8)),
     SheetRow(3, FALSE, FALSE,
              ScoreEntry(<< "Gibson" >>, << "LP" >>, << "1", "9", "5", "9" >>, "Electric",
                         "Excellent", 5, 4, 8)),
     SheetRow(4, FALSE, FALSE,
              ScoreEntry(<< "Acme" >>, << "Z" >>, << "2", "0", "1", "0" >>, "Bass", "Good",
                         8, 2, 4)) >>

\* The marks on a sheet.
RECURSIVE SheetMarks(_)
SheetMarks(sheet) ==
  IF sheet = << >> THEN 0
  ELSE (IF sheet[1].on_hold THEN 1 ELSE 0) + (IF sheet[1].sold THEN 1 ELSE 0)
       + SheetMarks(Tail(sheet))

\* budget.json and the models directory of a run.
RunEnvironments ==
  { << Budget(Weights5, FALSE, NoValue), ModelsDir(NoModelFiles) >>,
    << Budget(Weights5, TRUE, 50),
       [ i \in 1 .. Len(MODEL_NAMES) |->
           IF i = 1 THEN ModelFiles("ok", "ok", LearnedWeights)
           ELSE IF i = 2 THEN ModelFiles("ok", "bad_bytes", NoWeights)
           ELSE NoModelFiles ] >> }

\* searcher.py puts a date into the On Hold cell of a row (mark_on_hold).
SheetOnHold ==
  \E i \in 1 .. Len(ledger) :
    /\ SheetMarks(ledger) < MaxMarks
    /\ ~ ledger[i].on_hold
    /\ ledger' = [ ledger EXCEPT ![i].on_hold = TRUE ]

\* searcher.py puts a date into the Sold Date cell of a row (mark_sold).
SheetSold ==
  \E i \in 1 .. Len(ledger) :
    /\ SheetMarks(ledger) < MaxMarks
    /\ ~ ledger[i].sold
    /\ ledger' = [ ledger EXCEPT ![i].sold = TRUE ]

\* budget.json is edited: top_n.
SetTopN ==
  \E n \in 0 .. MaxTopN :
    /\ n # budget_json.top_n
    /\ budget_json' = [ budget_json EXCEPT !.top_n = n ]

(***************************************************************************)
(* scorer.py : the inputs of _score_fit and the call                       *)
(***************************************************************************)
\* A listing of which _score_fit reads brand, model and type.
FitEntry(brand, model, type) ==
  ScoreEntry(<< brand >>, << model >>, << >>, type, "", NoValue, NoValue, NoValue)

\* Listings: the two iconic models, a model of an iconic brand, a brand
\* nobody owns, spelled in other case, with and without type.
FitEntries ==
  { FitEntry("Gibson", "LP", "Electric"), FitEntry("GIBSON", "lp", ""),
    FitEntry("Gibson", "SG", "Acoustic"), FitEntry("Fender", "Strat", "electric"),
    FitEntry("Acme", "Z", "Electric"), FitEntry("Acme", "Z", "Bass"),
    FitEntry("Acme", "Z", ""), FitEntry("Martin", "D", "Acoustic") }

\* The guitars a collection is made of.
FitGuitars ==
  { Owned("Gibson", "LP", "Electric"), Owned("fender", "Tele", "Acoustic"),
    Owned("Martin", "D", "electric") }

\* collection.json: every list of up to MaxCollection of these guitars.
FitCollections ==
  UNION { [ 1 .. n -> FitGuitars ] : n \in 0 .. MaxCollection }

\* _score_fit(entry, collection) is called.
ScoreFit ==
  /\ fit_call' = [ called |-> TRUE, listing |-> entry, collection |-> collection_json,
                   score |-> _score_fit(knowledge.iconic, entry, collection_json) ]
  /\ UNCHANGED << entry, value_call, listVars, mlVars >>

(***************************************************************************)
(* ml_train.py : train_all and the four trainers                           *)
(***************************************************************************)
MIN_WEIGHT_OPT == 30
MIN_PRICE_PRED == 50
MIN_APPRECIATION == 20
MIN_BUY_SKIP == 30
MIN_PER_CLASS == 10

\* What train_all reads, as counts: sold listings with both prices set that
\* sold at 95% of the asking price or more (rated) or below it (under), sold
\* listings with a sold price and no listed price (sold_only), the decisions
\* "buy" and "skip" of the user, the guitars of collection.json with a brand
\* and a model (owned), the keys of learned_rates in price_history.json
\* (learned), and whether a sold listing has a market range of 0 to 0
\* (zero_range).
TrainInputs(rated, under, sold_only, buys, skips, owned, learned, zero_range) ==
  [ rated |-> rated, under |-> under, sold_only |-> sold_only, buys |-> buys,
    skips |-> skips, owned |-> owned, learned |-> learned,
    zero_range |-> zero_range ]

TrainInputSets ==
  { TrainInputs(r, u, s, 0, k, o, l, z) :
      r \in { 0, 9, 10, 20, 30 }, u \in { 0, 9, 10, 19 }, s \in { 0, 21, 50 },
      k \in { 0, 1 }, o \in { 0, 1 }, l \in { 19, 20 }, z \in BOOLEAN }

\* valid of train_weight_optimizer: listed_price and sold_price set,
\* listed_price > 0.
WeightValid(d) == d.rated + d.under

\* valid of train_price_predictor: sold_price set and > 0.
PriceValid(d) == d.rated + d.under + d.sold_only

\* positives and negatives of train_buy_classifier.
Positives(d) == d.owned + d.rated + d.buys

Negatives(d) == d.under + d.skips

\* A threshold test on the total alone.
BuySkipped_TotalOnly(d) == Positives(d) + Negatives(d) < MIN_BUY_SKIP

\* The threshold test of train_buy_classifier.
BuySkipped(d) ==
  \/ Positives(d) + Negatives(d) < MIN_BUY_SKIP
  \/ Positives(d) < MIN_PER_CLASS
  \/ Negatives(d) < MIN_PER_CLASS

\* The threshold test of the i-th trainer: the call prints "Skipped" and
\* returns False.
Skipped(i, d) ==
  IF i = 1 THEN WeightValid(d) < MIN_WEIGHT_OPT
  ELSE IF i = 2 THEN PriceValid(d) < MIN_PRICE_PRED
  ELSE IF i = 3 THEN d.learned < MIN_APPRECIATION
  ELSE BuySkipped(d)

\* The i-th trainer past its threshold raises before it writes: the weight
\* optimizer computes _score_value of every valid listing, and that divides
\* by the market range.
TrainerRaises(i, d) == i = 1 /\ d.zero_range /\ WeightValid(d) > 0

\* joblib.dump and _save_meta of the i-th trainer.
TrainedFiles(i) ==
  ModelFiles("ok", "ok", IF i = 1 THEN LearnedWeights ELSE NoWeights)

\* train_all not running: pc = 0 before the first run, Len(MODEL_NAMES) + 1
\* after a run that returned; pc = i while the i-th trainer is next.
NoTrain == [ pc |-> 0, results |-> << >>, raised |-> FALSE ]

\* reverb_sold.py

\* The brand|model keys of the snapshots, one query each.
Queries == << "gibson lp", "fender strat" >>

\* A record of sold_listings: the listing id and the rest of the record.
SoldListing(id, price) == [ id |-> id, listed_price |-> price ]

\* What the Reverb API answers to a query: no listing, a listing, a listing
\* at another price, two listings, the same listing twice.
Responses ==
  { << >>,
    << SoldListing(1, 5) >>,
    << SoldListing(1, 6), SoldListing(2, 5) >>,
    << SoldListing(3, 5), SoldListing(3, 6) >> }

\* _fetch_sold_listings: [] when the request fails or the answer is not
\* JSON, the parsed listings otherwise.
_fetch_sold_listings(failed, response) == IF failed THEN << >> ELSE response

\* Variant: every fetched listing is appended.
Deduplicate_All(data, existing_ids, sold) ==
  [ data |-> data \o sold,
    existing_ids |-> existing_ids \cup { sold[i].id : i \in 1 .. Len(sold) } ]

\* The deduplication loop of collect over the fetched listings.
RECURSIVE Deduplicate(_, _, _)
Deduplicate(data, existing_ids, sold) ==
  IF sold = << >> THEN [ data |-> data, existing_ids |-> existing_ids ]
  ELSE IF Head(sold).id \notin existing_ids
  THEN Deduplicate(Append(data, Head(sold)), existing_ids \cup { Head(sold).id },
                   Tail(sold))
  ELSE Deduplicate(data, existing_ids, Tail(sold))

\* collect not running.
NoCollect ==
  [ pc |-> 0, data |-> << >>, existing_ids |-> {}, errors |-> 0, runs |-> 0,
    outcomes |-> << >> ]

CollectInit ==
  /\ training_data = << >>
  /\ collect_run = NoCollect

\* collect up to the loop: _load_training_data and existing_ids.
CollectStart ==
  /\ collect_run.pc = 0
  /\ collect_run.runs < MaxRuns
  /\ collect_run' =
       [ pc |-> 1, data |-> training_data,
         existing_ids |-> { training_data[i].id : i \in 1 .. Len(training_data) },
         errors |-> 0, runs |-> collect_run.runs + 1, outcomes |-> << >> ]
  /\ UNCHANGED training_data

\* One pass of the loop of collect: the query of collect_run.pc.
CollectQuery(failed, response) ==
  LET sold == _fetch_sold_listings(failed, response)
      out  == Deduplicate(collect_run.data, collect_run.existing_ids, sold)
  IN /\ collect_run.pc \in 1 .. Len(Queries)
     /\ collect_run' =
          IF sold = << >>
          THEN [ collect_run EXCEPT
                   !.pc = @ + 1, !.errors = @ + 1,
                   !.outcomes = Append(@, IF failed THEN "failed" ELSE "empty") ]
          ELSE [ collect_run EXCEPT
                   !.pc = @ + 1, !.data = out.data, !.existing_ids = out.existing_ids,
                   !.outcomes = Append(@, "fetched") ]
     /\ UNCHANGED training_data

\* _save_training_data(data) after the loop.
CollectSave ==
  /\ collect_run.pc = Len(Queries) + 1
  /\ training_data' = collect_run.data
  /\ collect_run' = [ collect_run EXCEPT !.pc = 0 ]

CollectFetch ==
  \E failed \in BOOLEAN :
    \E response \in (IF failed THEN { << >> } ELSE Responses) :
      CollectQuery(failed, response)

\* watchdog.py

\* A row of the workbook as read_entries returns it: whether the id has a
\* row, the day in its first column, and whether its on-hold and sold cells
\* are filled.  read_entries takes the URL from the tenth column and the two
\* marks from the eleventh and twelfth; the rows here are the rows of a
\* workbook laid out that way.
WatchRow(listed, date_arrived, on_hold, sold) ==
  [ listed |-> listed, date_arrived |-> date_arrived, on_hold |-> on_hold,
    sold |-> sold ]

NoRow == WatchRow(FALSE, 0, FALSE, FALSE)

\* read_entries: the ids of the rows; nothing when the workbook cannot be
\* read ("xlsx read error (will retry)").
read_entries(sheet, read_ok) ==
  IF read_ok THEN { id \in IDs : sheet[id].listed } ELSE {}

\* A notified file: missing, or the sorted ids it holds.
NoFile == [ exists |-> FALSE, ids |-> {} ]

\* save_notified and its two siblings.
save_notified(ids) == [ exists |-> TRUE, ids |-> ids ]

\* load_notified and its two siblings.
load_notified(file) == IF file.exists THEN file.ids ELSE {}

NotRunning ==
  [ running |-> FALSE, notified |-> {}, notified_hold |-> {}, notified_sold |-> {},
    app_pw |-> FALSE ]

NoNotes ==
  [ new |-> [ id \in IDs |-> 0 ], hold |-> [ id \in IDs |-> 0 ],
    sold |-> [ id \in IDs |-> 0 ], started |-> FALSE, old |-> {},
    failed_new |-> {}, failed_hold |-> {} ]

WatchInit ==
  /\ xlsx = [ id \in IDs |-> NoRow ]
  /\ notified_files = [ new |-> NoFile, hold |-> NoFile, sold |-> NoFile ]
  /\ watchdog = NotRunning
  /\ notes = NoNotes

\* main up to the loop: the password, the three sets loaded, and seeded from
\* the workbook where the file is missing.
WatchStart(password, read_ok) ==
  LET first_run      == ~ notified_files.new.exists
      first_run_hold == ~ notified_files.hold.exists
      first_run_sold == ~ notified_files.sold.exists
      entries        == read_entries(xlsx, read_ok)
      n  == IF first_run THEN entries ELSE load_notified(notified_files.new)
      nh == IF first_run_hold THEN { e \in entries : xlsx[e].on_hold }
            ELSE load_notified(notified_files.hold)
      ns == IF first_run_sold THEN { e \in entries : xlsx[e].sold }
            ELSE load_notified(notified_files.sold)
  IN /\ ~ watchdog.running
     /\ watchdog' = [ running |-> TRUE, notified |-> n, notified_hold |-> nh,
                      notified_sold |-> ns, app_pw |-> password ]
     /\ notified_files' = [ new |-> save_notified(n), hold |-> save_notified(nh),
                            sold |-> save_notified(ns) ]
     /\ notes' = [ notes EXCEPT
                     !.started = TRUE,
                     !.old = IF first_run /\ ~ notes.started
                             THEN { id \in IDs : xlsx[id].listed } ELSE @,
                     !.failed_new = {}, !.failed_hold = {} ]
     /\ UNCHANGED xlsx

\* The pending entries whose message the SMTP session sent: all of them, the
\* ones before the k-th when send_message raises on the k-th and the loop
\* breaks, none when the session fails or Gmail rejects the password.
Delivered(pending, outcome, k) ==
  IF outcome = "sent" THEN { pending[i] : i \in 1 .. Len(pending) }
  ELSE IF outcome = "send_error" THEN { pending[i] : i \in 1 .. Min(k, Len(pending)) - 1 }
  ELSE {}

\* mark as notified (after both channels attempted): every pending entry.
Marked(pending, delivered) == { pending[i] : i \in 1 .. Len(pending) }

Bump(count, ids) == [ id \in IDs |-> IF id \in ids THEN Min(count[id] + 1, 2) ELSE count[id] ]

\* One iteration of the loop of main: the workbook read, the new and on-hold
\* batch with the outcome of its SMTP session, the sold batch with the
\* outcome of its own.  Telegram is attempted for every pending entry and
\* changes nothing of the state.
WatchPoll(read_ok, outcome, k, sold_outcome) ==
  LET entries      == read_entries(xlsx, read_ok)
      new_pending  == { e \in entries : e \notin watchdog.notified
                                          /\ xlsx[e].date_arrived = today }
      silent       == { e \in entries : e \notin watchdog.notified
                                          /\ xlsx[e].date_arrived # today }
      hold_pending == { e \in entries : xlsx[e].on_hold
                                          /\ e \notin watchdog.notified_hold }
      sold_pending == { e \in entries : xlsx[e].sold
                                          /\ e \notin watchdog.notified_sold }
      new_seq      == SortedIds(new_pending)
      hold_seq     == SortedIds(hold_pending)
      pending      == [ i \in 1 .. Len(new_seq) |-> << new_seq[i], FALSE >> ]
                        \o [ i \in 1 .. Len(hold_seq) |-> << hold_seq[i], TRUE >> ]
      emailed      == pending # << >> /\ watchdog.app_pw
      delivered    == IF emailed THEN Delivered(pending, outcome, k) ELSE {}
      marked       == Marked(pending, delivered)
      pw1          == watchdog.app_pw /\ ~ (emailed /\ outcome = "auth_error")
      pw2          == pw1 /\ ~ (sold_pending # {} /\ sold_outcome = "auth_error")
      n2           == watchdog.notified \cup silent
                        \cup { m[1] : m \in { x \in marked : ~ x[2] } }
      nh2          == watchdog.notified_hold
                        \cup { m[1] : m \in { x \in marked : x[2] } }
      ns2          == watchdog.notified_sold \cup sold_pending
  IN /\ watchdog.running
     /\ watchdog' = [ running |-> TRUE, notified |-> n2, notified_hold |-> nh2,
                      notified_sold |-> ns2, app_pw |-> pw2 ]
     /\ notified_files' =
          [ new  |-> save_notified(n2),
            hold |-> IF pending # << >> THEN save_notified(nh2) ELSE notified_files.hold,
            sold |-> IF sold_pending # {} THEN save_notified(ns2) ELSE notified_files.sold ]
     /\ notes' = [ notes EXCEPT
                     !.new = Bump(@, new_pending),
                     !.hold = Bump(@, hold_pending),
                     !.sold = Bump(@, sold_pending),
                     !.failed_new =
                       IF emailed
                       THEN { e \in new_pending : << e, FALSE >> \notin delivered } ELSE {},
                     !.failed_hold =
                       IF emailed
                       THEN { e \in hold_pending : << e, TRUE >> \notin delivered } ELSE {} ]
     /\ UNCHANGED xlsx

EmailOutcomes == { "sent", "send_error", "session_error", "auth_error" }

WatchCycle ==
  \E read_ok \in BOOLEAN :
    \E outcome \in EmailOutcomes :
      \E k \in (IF outcome = "send_error" THEN { 1, 2 } ELSE { 1 }) :
        \E sold_outcome \in { "sent", "auth_error" } :
          WatchPoll(read_ok, outcome, k, sold_outcome)

WatchStarts == \E password, read_ok \in BOOLEAN : WatchStart(password, read_ok)

\* The watchdog is stopped during its sleep.
WatchStop ==
  /\ watchdog.running
  /\ watchdog' = NotRunning
  /\ UNCHANGED << xlsx, notified_files, notes >>

\* The searcher appends a row, dated with the day of the crawl.
RowAppended ==
  \E id \in IDs :
    /\ ~ xlsx[id].listed
    /\ xlsx' = [ xlsx EXCEPT ![id] = WatchRow(TRUE, today, FALSE, FALSE) ]
    /\ UNCHANGED << notified_files, watchdog, notes >>

\* The searcher fills the on-hold cell or the sold cell of a row.
RowMarked ==
  \E id \in IDs :
    /\ xlsx[id].listed
    /\ \/ ~ xlsx[id].on_hold /\ xlsx' = [ xlsx EXCEPT ![id].on_hold = TRUE ]
       \/ ~ xlsx[id].sold /\ xlsx' = [ xlsx EXCEPT ![id].sold = TRUE ]
    /\ UNCHANGED << notified_files, watchdog, notes >>

\* date.today() moves on.
WatchNextDay ==
  /\ today < MaxAdvance
  /\ today' = today + 1
  /\ UNCHANGED << price_history, _learned_rates_cache, last, watchVars >>

TrainInit ==
  /\ train_inputs = TrainInputs(0, 0, 0, 0, 0, 0, 0, FALSE)
  /\ train = NoTrain

ToolInit == TrainInit /\ crashes = 0 /\ CollectInit /\ WatchInit

\* train_all up to the first trainer: without scikit-learn or joblib it
\* returns at once.
TrainAll ==
  /\ train.pc \in { 0, Len(MODEL_NAMES) + 1 } \/ train.raised
  /\ train' = [ pc |-> IF joblib THEN 1 ELSE Len(MODEL_NAMES) + 1,
                results |-> << >>, raised |-> FALSE ]
  /\ UNCHANGED << train_inputs, models_dir >>

\* The call of the i-th trainer in train_all.
TrainModel(i) ==
  /\ train.pc = i
  /\ ~ train.raised
  /\ IF Skipped(i, train_inputs)
     THEN /\ train' = [ train EXCEPT !.pc = i + 1,
                                     !.results = Append(@, FALSE) ]
          /\ UNCHANGED models_dir
     ELSE IF TrainerRaises(i, train_inputs)
     THEN /\ train' = [ train EXCEPT !.raised = TRUE ]
          /\ UNCHANGED models_dir
     ELSE /\ train' = [ train EXCEPT !.pc = i + 1,
                                     !.results = Append(@, TRUE) ]
          /\ models_dir' = [ models_dir EXCEPT ![i] = TrainedFiles(i) ]
  /\ UNCHANGED train_inputs

TrainStep == \E i \in 1 .. Len(MODEL_NAMES) : TrainModel(i)

(***************************************************************************)
(* Specifications                                                          *)
(***************************************************************************)
\* The scorer before any call.
ScoreInit ==
  /\ entry = [ price |-> NoValue, reverb_lo |-> NoValue, reverb_hi |-> NoValue ]
  /\ value_call = NoValueCall
  /\ fit_call = NoFitCall
  /\ ToolInit
  /\ ListInit
  /\ MlInit

Init == SearcherInit /\ ValInit /\ ScoreInit

\* The crawl loop of searcher.py and its restarts.
Next ==
  \/ CrawlCycle /\ UNCHANGED << toolVars, valVars, scoreVars >>
  \/ Restart /\ UNCHANGED << toolVars, valVars, scoreVars >>

Spec == Init /\ [][Next]_vars

InitVal == SearcherInit /\ ValInit /\ ScoreInit

\* The learn.py job: snapshots and rate computations over the days.
NextVal ==
  \/ SnapshotAny /\ UNCHANGED << toolVars, searcherVars, scoreVars >>
  \/ ComputeAny /\ UNCHANGED << toolVars, searcherVars, scoreVars >>
  \/ NextDay /\ UNCHANGED << toolVars, searcherVars, scoreVars >>

SpecVal == InitVal /\ [][NextVal]_vars

\* learn.py runs and appreciation_rate lookups, in one process or the next.
NextRate ==
  \/ SnapshotSheet /\ UNCHANGED << toolVars, searcherVars, scoreVars >>
  \/ ComputeAny /\ UNCHANGED << toolVars, searcherVars, scoreVars >>
  \/ NextDay /\ UNCHANGED << toolVars, searcherVars, scoreVars >>
  \/ RateAny /\ UNCHANGED << toolVars, searcherVars, scoreVars >>
  \/ NewProcess /\ UNCHANGED << toolVars, searcherVars, scoreVars >>

SpecRate == InitVal /\ [][NextRate]_vars

\* The daily learn.py job with a price_history.json that a cut-short write
\* leaves unparsable.
NextHistory ==
  \/ SnapshotSheet /\ UNCHANGED << toolVars, searcherVars, scoreVars >>
  \/ ComputeAny /\ UNCHANGED << toolVars, searcherVars, scoreVars >>
  \/ NextDay /\ UNCHANGED << toolVars, searcherVars, scoreVars >>
  \/ TruncateHistory /\ UNCHANGED << toolVars, searcherVars, scoreVars >>

SpecHistory == InitVal /\ [][NextHistory]_vars

InitValue ==
  /\ SearcherInit /\ ValInit /\ ListInit /\ MlInit
  /\ entry \in { e \in ValueEntries :
                    e.reverb_lo = NoValue \/ e.reverb_hi = NoValue
                      \/ e.reverb_lo <= e.reverb_hi }
  /\ value_call = NoValueCall
  /\ fit_call = NoFitCall
  /\ ToolInit

\* _score_value over the prices of a listing with a fixed market range.
NextValue ==
  \/ ScoreValue /\ UNCHANGED << toolVars, searcherVars, valVars, fit_call, listVars, mlVars >>
  \/ Reprice /\ UNCHANGED << toolVars, searcherVars, valVars, fit_call, listVars, mlVars >>

SpecValue == InitValue /\ [][NextValue]_vars

\* One process of scorer.py: the files it reads are fixed at its start.
InitScore ==
  /\ SearcherInit /\ ValInit
  /\ entry \in ScoreEntries
  /\ value_call = NoValueCall
  /\ fit_call = NoFitCall
  /\ ToolInit
  /\ collection_json \in Collections
  /\ budget_json \in Budgets
  /\ knowledge \in KnowledgeBases
  /\ scored = NoScored
  /\ recommendations = NoRun
  /\ \E env \in MlEnvironments :
       ml_module = env[1] /\ joblib = env[2] /\ models_dir = env[3]
  /\ _model_cache = {}
  /\ _meta_cache = << >>
  /\ _load_attempted = FALSE
  /\ file_reads = NoFileReads
  /\ ml_call = NoMlCall

\* A process that has imported ml_predict, with or without joblib.
InitMl ==
  /\ SearcherInit /\ ValInit /\ ListInit
  /\ entry = [ price |-> NoValue, reverb_lo |-> NoValue, reverb_hi |-> NoValue ]
  /\ value_call = NoValueCall
  /\ fit_call = NoFitCall
  /\ ToolInit
  /\ ml_module = TRUE
  /\ joblib \in BOOLEAN
  /\ models_dir \in ModelDirs
  /\ _model_cache = {}
  /\ _meta_cache = << >>
  /\ _load_attempted = FALSE
  /\ file_reads = NoFileReads
  /\ ml_call = NoMlCall

\* The calls into ml_predict in any order, and training runs in between.
NextMl ==
  \/ IsMlAvailable /\ UNCHANGED << toolVars, searcherVars, valVars, entry, value_call, fit_call, listVars >>
  \/ ActiveModelCount /\ UNCHANGED << toolVars, searcherVars, valVars, entry, value_call, fit_call, listVars >>
  \/ GetModelStatus /\ UNCHANGED << toolVars, searcherVars, valVars, entry, value_call, fit_call, listVars >>
  \/ GetLearnedWeights /\ UNCHANGED << toolVars, searcherVars, valVars, entry, value_call, fit_call, listVars >>
  \/ MlScoreListing /\ UNCHANGED << toolVars, searcherVars, valVars, entry, value_call, fit_call, listVars >>
  \/ TrainModels /\ UNCHANGED << toolVars, searcherVars, valVars, entry, value_call, fit_call, listVars >>

SpecMl == InitMl /\ [][NextMl]_vars

\* score_listing, called once and again.
NextScore == ScoreListing /\ UNCHANGED << toolVars, searcherVars, valVars >>

SpecScore == InitScore /\ [][NextScore]_vars

\* A listing and a collection.
InitFit ==
  /\ SearcherInit /\ ValInit /\ MlInit
  /\ entry \in FitEntries
  /\ value_call = NoValueCall
  /\ fit_call = NoFitCall
  /\ ToolInit
  /\ collection_json \in FitCollections
  /\ budget_json = Budget(Weights5, FALSE, NoValue)
  /\ knowledge = Knowledge(IconicModels, TopGuitarists, << >>)
  /\ scored = NoScored
  /\ recommendations = NoRun

NextFit == ScoreFit /\ UNCHANGED << toolVars, searcherVars, valVars >>

SpecFit == InitFit /\ [][NextFit]_vars

\* The sheet the crawler filled, a collection, and a budget with or without
\* learned scoring.
InitRun ==
  /\ now = 0 /\ ledger = RunSheet /\ cand_file = << >> /\ cache = << >>
  /\ seen_ids = {} /\ sold_ids = {} /\ sold_candidates = << >>
  /\ all_current_ids = {} /\ newly_sold = {} /\ reappeared = {} /\ on_hold_seen = {}
  /\ on_hold_crawl = {}
  /\ fresh = TRUE
  /\ missRun = [ p \in IDs |-> 0 ] /\ missStart = [ p \in IDs |-> -1 ]
  /\ procMiss = [ p \in IDs |-> 0 ] /\ graceRestart = [ p \in IDs |-> FALSE ]
  /\ emitCount = [ p \in IDs |-> 0 ]
  /\ ValInit
  /\ entry = [ price |-> NoValue, reverb_lo |-> NoValue, reverb_hi |-> NoValue ]
  /\ value_call = NoValueCall
  /\ fit_call = NoFitCall
  /\ ToolInit
  /\ collection_json = << Owned("Gibson", "LP", "Electric") >>
  /\ knowledge = Knowledge(IconicModels, TopGuitarists, << >>)
  /\ scored = NoScored
  /\ recommendations = NoRun
  /\ ml_module = TRUE /\ joblib = TRUE
  /\ _model_cache = {} /\ _meta_cache = << >> /\ _load_attempted = FALSE
  /\ file_reads = NoFileReads /\ ml_call = NoMlCall
  /\ \E env \in RunEnvironments :
       budget_json = env[1] /\ models_dir = env[2]

\* Runs of scorer.py between the crawler's marks on the sheet.
NextRun ==
  \/ Run /\ UNCHANGED << toolVars, searcherVars, valVars >>
  \/ SheetOnHold /\ UNCHANGED << toolVars, searcherNoLedger, valVars, scoreVars >>
  \/ SheetSold /\ UNCHANGED << toolVars, searcherNoLedger, valVars, scoreVars >>
  \/ SetTopN /\ UNCHANGED << toolVars, searcherVars, valVars, entry, value_call, fit_call, collection_json,
                             knowledge, scored, recommendations, mlVars >>

\* The searcher started on a workbook that holds the row of a listing of
\* another site, its URL of the form .../product/<slug>.
InitSlug ==
  /\ now = 0 /\ cand_file = << >> /\ cache = << >>
  /\ \E slug \in SlugIDs :
       /\ ledger = << [ id |-> slug, on_hold |-> FALSE, sold |-> FALSE ] >>
       /\ seen_ids = load_seen_ids(ledger)
       /\ sold_ids = load_sold_ids(ledger)
  /\ sold_candidates = << >>
  /\ all_current_ids = {} /\ newly_sold = {} /\ reappeared = {} /\ on_hold_seen = {}
  /\ on_hold_crawl = {}
  /\ fresh = TRUE
  /\ missRun = [ p \in IDs |-> 0 ] /\ missStart = [ p \in IDs |-> -1 ]
  /\ procMiss = [ p \in IDs |-> 0 ] /\ graceRestart = [ p \in IDs |-> FALSE ]
  /\ emitCount = [ p \in IDs |-> 0 ]
  /\ ValInit /\ ScoreInit

SpecSlug == InitSlug /\ [][Next]_vars

\* The crawl loop with the listings of woodstore.fr, and its restarts.
NextSites ==
  \/ CrawlSites /\ UNCHANGED << toolVars, valVars, scoreVars >>
  \/ Restart /\ UNCHANGED << toolVars, valVars, scoreVars >>

SpecSites == Init /\ [][NextSites]_vars

\* Runs of reverb_sold.collect, any query of which can fail.
NextCollect ==
  \/ CollectStart /\ UNCHANGED << trainVars, crashes, watchVars, searcherVars, valVars, scoreVars >>
  \/ CollectFetch /\ UNCHANGED << trainVars, crashes, watchVars, searcherVars, valVars, scoreVars >>
  \/ CollectSave /\ UNCHANGED << trainVars, crashes, watchVars, searcherVars, valVars, scoreVars >>

SpecCollect == Init /\ [][NextCollect]_vars

\* The watchdog, started and stopped, while the searcher writes the workbook.
NextWatch ==
  \/ WatchStarts /\ UNCHANGED << trainVars, crashes, collectVars, searcherVars, valVars, scoreVars >>
  \/ WatchCycle /\ UNCHANGED << trainVars, crashes, collectVars, searcherVars, valVars, scoreVars >>
  \/ WatchStop /\ UNCHANGED << trainVars, crashes, collectVars, searcherVars, valVars, scoreVars >>
  \/ RowAppended /\ UNCHANGED << trainVars, crashes, collectVars, searcherVars, valVars, scoreVars >>
  \/ RowMarked /\ UNCHANGED << trainVars, crashes, collectVars, searcherVars, valVars, scoreVars >>
  \/ WatchNextDay /\ UNCHANGED << trainVars, crashes, collectVars, searcherVars, scoreVars >>

SpecWatch == Init /\ [][NextWatch]_vars

\* The searcher with crashes in the middle of an iteration.
NextCrash ==
  \/ CrawlCycle /\ UNCHANGED << toolVars, valVars, scoreVars >>
  \/ Restart /\ UNCHANGED << toolVars, valVars, scoreVars >>
  \/ Crash /\ UNCHANGED << trainVars, collectVars, watchVars, valVars, scoreVars >>

SpecCrash == Init /\ [][NextCrash]_vars

SpecRun == InitRun /\ [][NextRun]_vars

\* ml_train: one training run after another, on every set of inputs, with
\* and without scikit-learn and joblib, over an empty models directory or
\* the files of an earlier run.
InitTrain ==
  /\ SearcherInit /\ ValInit /\ ListInit
  /\ entry = [ price |-> NoValue, reverb_lo |-> NoValue, reverb_hi |-> NoValue ]
  /\ value_call = NoValueCall
  /\ fit_call = NoFitCall
  /\ ml_module = TRUE
  /\ joblib \in BOOLEAN
  /\ models_dir \in { ModelsDir(NoModelFiles),
                      [ i \in 1 .. Len(MODEL_NAMES) |-> TrainedFiles(i) ] }
  /\ _model_cache = {}
  /\ _meta_cache = << >>
  /\ _load_attempted = FALSE
  /\ file_reads = NoFileReads
  /\ ml_call = NoMlCall
  /\ train_inputs \in TrainInputSets
  /\ train = NoTrain
  /\ crashes = 0
  /\ CollectInit
  /\ WatchInit

NextTrain ==
  \/ TrainAll /\ UNCHANGED << crashes, collectVars, watchVars, searcherVars, valVars, entry, value_call, fit_call, listVars,
                              ml_module, joblib, _model_cache, _meta_cache,
                              _load_attempted, file_reads, ml_call >>
  \/ TrainStep /\ UNCHANGED << crashes, collectVars, watchVars, searcherVars, valVars, entry, value_call, fit_call, listVars,
                               ml_module, joblib, _model_cache, _meta_cache,
                               _load_attempted, file_reads, ml_call >>

SpecTrain == InitTrain /\ [][NextTrain]_vars

(***************************************************************************)
(* Sold detector: properties                                               *)
(***************************************************************************)
\* The id has a sold date in the workbook.
Confirmed(p) == p \in load_sold_ids(ledger)

\* C1: an id that appears in a full crawl is no candidate after it; an id is
\* emitted as sold only in a crawl that is at least the second in a row it is
\* missing from (one miss followed by a sighting never confirms); and a
\* candidate's timestamp is the time of the first crawl of its current run of
\* misses, so a later absence starts a new grace period at that later crawl.
C1_TransientMissCleared ==
  /\ \A p \in all_current_ids : p \notin DOMAIN sold_candidates
  /\ \A p \in newly_sold : missRun[p] >= 2
  /\ \A p \in DOMAIN sold_candidates : sold_candidates[p] = missStart[p]

\* A candidate came back in the last crawl, lost its candidacy, was not sold.
C1_Witness ==
  \E p \in reappeared :
    /\ p \in all_current_ids
    /\ p \notin DOMAIN sold_candidates
    /\ emitCount[p] = 0

\* C2 as stated: an unsold tracked id missing from 2 consecutive non-empty
\* crawls is confirmed sold within that run.
C2_TwoMissesConfirm ==
  \A p \in IDs : missRun[p] >= 2 => Confirmed(p)

\* C2 amended: the id is confirmed sold by the first non-empty crawl of the run
\* that is at least SOLD_THRESHOLD seconds after the run's first crawl; within
\* one process (cycles INTERVAL apart) that is the third crawl of the run at
\* the latest.
C2_GraceElapsedConfirms ==
  \A p \in IDs :
    /\ (all_current_ids # {} /\ missRun[p] >= 1 /\ now - missStart[p] >= SOLD_THRESHOLD)
         => Confirmed(p)
    /\ procMiss[p] >= 3 => Confirmed(p)

\* The third crawl in a row without the id confirmed it, exactly SOLD_THRESHOLD
\* seconds after the first.
C2_Witness ==
  \E p \in newly_sold :
    /\ procMiss[p] = 3
    /\ now - missStart[p] = SOLD_THRESHOLD
    /\ Confirmed(p)

\* C3: an id is emitted as confirmed sold at most once; once emitted it is in
\* the sold set and is no candidate again.
C3_EmittedOnce ==
  \A p \in IDs :
    /\ emitCount[p] <= 1
    /\ emitCount[p] >= 1 => p \in sold_ids
    /\ p \in sold_ids => p \notin DOMAIN sold_candidates

\* A sold id came back and is missing again from a non-empty crawl.
C3_Witness ==
  \E p \in IDs :
    /\ emitCount[p] = 1
    /\ missRun[p] = 0
    /\ all_current_ids # {}
    /\ p \notin all_current_ids
    /\ p \notin newly_sold

C5_SnapshotsAppendOnly ==
  [][ /\ \A key \in DOMAIN price_history'.snapshots :
           \A i, j \in 1 .. Len(price_history'.snapshots[key]) :
             i < j => price_history'.snapshots[key][i].date
                        < price_history'.snapshots[key][j].date
      /\ \A key \in DOMAIN price_history.snapshots :
           /\ key \in DOMAIN price_history'.snapshots
           /\ Len(price_history.snapshots[key]) <= Len(price_history'.snapshots[key])
           /\ SubSeq(price_history'.snapshots[key], 1, Len(price_history.snapshots[key]))
                = price_history.snapshots[key]
      /\ last'.op = "snapshot" =>
           last'.ret = TotalSnapshots(price_history') - TotalSnapshots(price_history)
      /\ (last.op = "snapshot" /\ last'.op = "snapshot" /\ last'.again) =>
           /\ last'.ret = 0
           /\ price_history'.snapshots = price_history.snapshots ]_vars

\* A repeated call on a later day returned 0 for a key that has two snapshots.
C5_Witness ==
  /\ last.op = "snapshot" /\ last.again /\ last.ret = 0
  /\ \E key \in last.keys :
       /\ Len(price_history.snapshots[key]) = 2
       /\ price_history.snapshots[key][2].date = today

\* C6: compute_learned_rates run twice in a row with the same min_days gives
\* the same learned-rate table and the same count, and leaves the snapshots
\* as they were.
C6_ComputeIdempotent ==
  [][ (last.op = "compute" /\ last'.op = "compute" /\ last'.min_days = last.min_days) =>
        /\ price_history'.learned_rates = price_history.learned_rates
        /\ last'.ret = last.ret
        /\ price_history'.snapshots = price_history.snapshots ]_vars

\* The second of two runs in a row stored a rate again.
C6_Witness ==
  /\ last.op = "compute" /\ last.again /\ last.ret >= 1
  /\ DOMAIN price_history.learned_rates # {}

\* C7 as stated: after a run the table holds a rate for exactly the keys with
\* at least 2 snapshots whose first and last dates are min_days apart.
C7_RatesForSpannedKeys ==
  (last.op = "compute" /\ price_history.exists) =>
    DOMAIN price_history.learned_rates =
      { key \in DOMAIN price_history.snapshots :
          /\ Len(price_history.snapshots[key]) >= 2
          /\ price_history.snapshots[key][Len(price_history.snapshots[key])].date
               - price_history.snapshots[key][1].date >= last.min_days }

\* C7: after a run the table holds a rate for exactly the keys with at least
\* 2 snapshots whose first and last dates are min_days apart and whose first
\* midpoint is positive; no other key keeps a rate of an earlier run.
C7_RatesForPositiveSpannedKeys ==
  (last.op = "compute" /\ price_history.exists) =>
    /\ DOMAIN price_history.learned_rates =
         { key \in DOMAIN price_history.snapshots :
             /\ Len(price_history.snapshots[key]) >= 2
             /\ price_history.snapshots[key][Len(price_history.snapshots[key])].date
                  - price_history.snapshots[key][1].date >= last.min_days
             /\ price_history.snapshots[key][1].mid > 0 }
    /\ last.dropped \cap DOMAIN price_history.learned_rates = {}

\* A run dropped the rate an earlier run had stored for a key that still has
\* its two snapshots.
C7_Witness ==
  /\ last.op = "compute"
  /\ \E key \in last.dropped : Len(price_history.snapshots[key]) >= 2

\* C8: every stored learned rate lies in [-0.20, 0.30].
C8_RatesClamped ==
  \A key \in DOMAIN price_history.learned_rates :
    /\ 0 - 2000 <= price_history.learned_rates[key]
    /\ price_history.learned_rates[key] <= 3000

\* A tenfold midpoint after 73 days is stored as 0.30.
C8_Witness ==
  /\ last.op = "compute"
  /\ \E key \in DOMAIN price_history.learned_rates :
       LET points == price_history.snapshots[key]
       IN /\ points[Len(points)].mid = 10 * points[1].mid
          /\ points[Len(points)].date - points[1].date = 73
          /\ price_history.learned_rates[key] = 3000

(***************************************************************************)
(* appreciation_rate: properties                                           *)
(***************************************************************************)
\* C9: appreciation_rate returns the learned rate of the lowercase
\* brand|model key whenever the table holds one, whatever the year and the
\* tier; it takes the static table only when the table holds none.
C9_LearnedRateWins ==
  last.op = "rate" =>
    LET key   == KeyOf(last.query.brand, last.query.model)
        table == IF price_history.exists THEN price_history.learned_rates ELSE << >>
    IN /\ key \in DOMAIN table => (last.ret = table[key] /\ last.source = "learned")
       /\ last.source = "static" => key \notin DOMAIN table

\* A lookup of a minor-tier brand returned a learned rate that differs from
\* the static rate of its year.
C9_Witness ==
  /\ last.op = "rate" /\ last.source = "learned"
  /\ last.query.brand = << "Acme" >>
  /\ last.ret = price_history.learned_rates[KeyOf(last.query.brand, last.query.model)]
  /\ last.ret # StaticRate(last.query.brand, last.query.year)

\* C10 as stated: with no four-digit year in the string and no learned rate
\* appreciation_rate returns 0.02.
C10_UnparsableYearFallback ==
  (/\ last.op = "rate"
   /\ _parse_year(last.query.year) = NoYear
   /\ last.source = "static") => last.ret = 200

\* C10: with no four-digit year in the string and no learned rate
\* appreciation_rate takes the year as 1970 and returns the 1965-1980 rate of
\* the brand's tier, 0.06, 0.05 or 0.03; the closing 0.02 is returned for a
\* year in no era.
C10_UnparsableYearIs1970 ==
  (last.op = "rate" /\ last.source = "static") =>
    /\ _parse_year(last.query.year) = NoYear =>
         last.ret = (CASE _brand_tier(last.query.brand) = "premium" -> 600
                       [] _brand_tier(last.query.brand) = "major" -> 500
                       [] OTHER -> 300)
    /\ _parse_year(last.query.year) = 9999 => last.ret = 200

\* A lookup of a major-tier brand with a three-digit year returned 0.05.
C10_Witness ==
  /\ last.op = "rate" /\ last.source = "static"
  /\ last.query.year = << "1", "9", "6" >>
  /\ last.query.brand = << "Guild" >>
  /\ last.ret = 500

C12_SubScoresInRange ==
  scored.called =>
    \A i \in 1 .. 5 :
      \/ Raised(scored.scores[i])
      \/ (RatLeq(RatInt(0), scored.scores[i]) /\ RatLeq(scored.scores[i], RatInt(100)))

\* A condition string names a condition of the table: stripped and in
\* lowercase it is not empty and contains, or is contained in, a key.
ConditionRecognised(condition_str) ==
  LET normalized == StrLower(StrStrip(condition_str))
  IN /\ normalized # ""
     /\ \E i \in 1 .. Len(_CONDITION_SCORES) :
          \/ StrIn(_CONDITION_SCORES[i][1], normalized)
          \/ StrIn(normalized, _CONDITION_SCORES[i][1])

\* C13: score_listing does not raise on missing or malformed listing data,
\* and a sub-score whose input is missing is the neutral 50: value without
\* price or a market bound, appreciation with an unparsable year, fit with an
\* empty collection, condition with an empty or unrecognised string, iconic
\* with an empty guitarist knowledge base.
C13_NeutralDefaults ==
  scored.called =>
    /\ scored.exception # "ZeroDivisionError"
    /\ (scored.entry.price = NoValue \/ scored.entry.reverb_lo = NoValue
          \/ scored.entry.reverb_hi = NoValue) => scored.scores[1] = RatInt(50)
    /\ _parse_year(scored.entry.year) = NoYear => scored.scores[2] = RatInt(50)
    /\ collection_json = << >> => scored.scores[3] = RatInt(50)
    /\ ~ ConditionRecognised(scored.entry.condition) => scored.scores[4] = RatInt(50)
    /\ knowledge.guitarists = << >> => scored.scores[5] = RatInt(50)

\* The weighted sum over the dimensions whose key is in the weights map.
WeightedSumOfPresent(w, scores) ==
  LET Term(key, score) == IF key \in DOMAIN w THEN RatMul(Rat(w[key], 100), score)
                          ELSE RatInt(0)
  IN RatAdd(RatAdd(RatAdd(RatAdd(Term("value", scores[1]), Term("appreciate", scores[2])),
                          Term("fit", scores[3])),
                   Term("condition", scores[4])),
            Term("iconic", scores[5]))

\* C14 as stated: whichever of the five weight keys are missing, the call
\* does not raise for it and the rule-based total is the weighted sum over
\* the dimensions whose key is present.
C14_MissingKeyExcluded ==
  scored.called =>
    /\ scored.exception # "KeyError"
    /\ ~ scored.raised =>
         scored.rule_total = WeightedSumOfPresent(budget_json.weights, scored.scores)

\* C14 amended: a call that returns has the weighted sum over the present
\* dimensions as its rule-based total; a missing "condition" or "iconic"
\* key never makes the call raise; a missing "value", "appreciate" or "fit"
\* key makes it raise (KeyError, unless a sub-score raised first).
C14_OptionalKeyExcluded ==
  scored.called =>
    /\ ~ scored.raised =>
         scored.rule_total = WeightedSumOfPresent(budget_json.weights, scored.scores)
    /\ scored.exception = "KeyError" <=>
         /\ ~ ({ "value", "appreciate", "fit" } \subseteq DOMAIN budget_json.weights)
         /\ \A i \in 1 .. 5 : ~ Raised(scored.scores[i])
    /\ ~ ({ "value", "appreciate", "fit" } \subseteq DOMAIN budget_json.weights)
         => scored.raised

\* A call with the four default weights returns: the iconic dimension is
\* left out of a total the other four make up.
C14_Witness ==
  /\ scored.called /\ ~ scored.raised
  /\ DOMAIN budget_json.weights = { "value", "appreciate", "fit", "condition" }
  /\ scored.scores = << RatInt(50), RatInt(50), RatInt(70), RatInt(50), Rat(9900, 199) >>
  /\ scored.rule_total = RatInt(55)

\* A learned-weight total is available to this process: ml_predict and
\* joblib import, the weight optimizer's model file loads and its meta file
\* holds learned weights.
LearnedTotalAvailable ==
  /\ ml_module /\ joblib
  /\ models_dir[1].model = "ok"
  /\ models_dir[1].meta = "ok"
  /\ models_dir[1].learned_weights # NoWeights

\* C15: the total a score_listing call returns is the blend
\* (1 - ml_blend) * rule_total + ml_blend * ml_total, rounded, when ML is
\* enabled and a learned-weight total is available, and the rounded
\* rule-based total in every other case.
C15_BlendOrRuleTotal ==
  (scored.called /\ ~ scored.raised) =>
    IF budget_json.ml_enabled /\ LearnedTotalAvailable
    THEN /\ scored.ml_total # NoTotal
         /\ scored.total =
              Round1(RatAdd(RatMul(Rat(100 - MlBlend(budget_json), 100), scored.rule_total),
                            RatMul(Rat(MlBlend(budget_json), 100), scored.ml_total)))
    ELSE /\ scored.ml_total = NoTotal
         /\ scored.total = Round1(scored.rule_total)

\* A call with the default blend 0.3 whose total the learned weights moved
\* away from the rule-based total.
C15_Witness ==
  /\ scored.called /\ ~ scored.raised
  /\ budget_json.ml_enabled /\ budget_json.ml_blend = NoValue
  /\ LearnedTotalAvailable
  /\ scored.ml_total # NoTotal
  /\ scored.total # Round1(scored.rule_total)

(***************************************************************************)
(* ml_predict.py: properties                                               *)
(***************************************************************************)
\* C16: in any sequence of calls into ml_predict, every model file is read
\* at most once, on the first call; later calls leave the caches as they
\* are; no call raises; and a model whose runtime or file is missing or
\* whose load fails is absent from the cache.
C16_LoadOnceNeverRaises ==
  /\ [](\A i \in 1 .. Len(MODEL_NAMES) :
          file_reads[i].model <= 1 /\ file_reads[i].meta <= 1)
  /\ [][_load_attempted =>
          UNCHANGED << _model_cache, _meta_cache, file_reads, _load_attempted >>]_vars
  /\ [][(~ _load_attempted /\ _load_attempted') =>
          \A i \in 1 .. Len(MODEL_NAMES) :
            (~ joblib \/ models_dir[i].model # "ok") => MODEL_NAMES[i] \notin _model_cache']_vars
  /\ [](~ ml_call.raised)

(***************************************************************************)
(* valuation.py: an unparsable price history                               *)
(***************************************************************************)
\* C17: a snapshot_prices call that finds price_history.json unparsable does
\* not overwrite it and surfaces the failure to its caller.
C17_CorruptHistoryKept ==
  [][(price_history.exists /\ price_history.corrupt /\ last'.op = "snapshot") =>
       (price_history' = price_history /\ last'.raised)]_vars

(***************************************************************************)
(* scorer.py: the recommendation list                                      *)
(***************************************************************************)
\* The total the run gave a row of the sheet it read.
RunTotal(i) ==
  LET list == recommendations.scored
      k    == CHOOSE k \in 1 .. Len(list) : list[k].row = i
  IN list[k].total

RowActive(row) == row.id # NoValue /\ ~ row.on_hold /\ ~ row.sold

\* C18: the list scorer.run writes holds only rows of the sheet with neither
\* an on-hold mark nor a sold date, each once and with its total, has at
\* most top_n entries, is ordered by non-increasing total, and no active row
\* left out has a higher total than a row that is in.
C18_TopActiveListings ==
  recommendations.written =>
    LET top   == recommendations.top
        sheet == recommendations.sheet
        in_   == { top[k].row : k \in 1 .. Len(top) }
    IN /\ \A k \in 1 .. Len(top) :
            /\ top[k].row \in 1 .. Len(sheet)
            /\ RowActive(sheet[top[k].row])
            /\ \E j \in 1 .. Len(recommendations.scored) :
                 recommendations.scored[j] = top[k]
       /\ Cardinality(in_) = Len(top)
       /\ Len(top) <= recommendations.top_n
       /\ \A k \in 1 .. Len(top) - 1 : RatLeq(top[k + 1].total, top[k].total)
       /\ \A i \in 1 .. Len(sheet) :
            (RowActive(sheet[i]) /\ i \notin in_) =>
              /\ \E j \in 1 .. Len(recommendations.scored) :
                   recommendations.scored[j].row = i
              /\ \A k \in 1 .. Len(top) : RatLeq(RunTotal(i), top[k].total)

\* A run that ranked two rows of different totals, left an active row out
\* and read a sheet with a row on hold and a row without product id.
C18_Witness ==
  /\ recommendations.written
  /\ Len(recommendations.top) = 2
  /\ recommendations.top[1].total # recommendations.top[2].total
  /\ \E i \in 1 .. Len(recommendations.sheet) :
       /\ RowActive(recommendations.sheet[i])
       /\ \A k \in 1 .. 2 : recommendations.top[k].row # i
  /\ \E i \in 1 .. Len(recommendations.sheet) : recommendations.sheet[i].on_hold

(***************************************************************************)
(* scorer.py: the fit score                                                *)
(***************************************************************************)
\* The guitars of a collection with the listing's brand, brand and model,
\* and type, compared in lower case.
SameBrand(listing, collection) ==
  SelectSeq(collection, LAMBDA g : StrLower(g.brand) = StrLower(Join(listing.brand)))

SameModel(listing, collection) ==
  SelectSeq(SameBrand(listing, collection),
            LAMBDA g : StrLower(g.model) = StrLower(Join(listing.model)))

SameType(listing, collection) ==
  SelectSeq(collection, LAMBDA g : StrLower(g.type) = StrLower(listing.type))

\* The listing has a type and it makes up less than 25 % of the collection.
TypeUnderRepresented(listing, collection) ==
  /\ listing.type # ""
  /\ 100 * Len(SameType(listing, collection)) < 25 * Len(collection)

\* The boost of the iconic model the listing matches, 0 without a match.
IconicBoost(listing) ==
  LET match == _match_iconic_model(knowledge.iconic, Join(listing.brand), Join(listing.model))
  IN IF match.found THEN match.boost ELSE 0

\* 50, minus 25 for a duplicate, else plus 20 for a new brand, plus 15 for an
\* under-represented type, plus the boost, within [0, 100].
FitFormula(listing, collection) ==
  LET points == 50
                + (IF Len(SameModel(listing, collection)) > 0 THEN 0 - 25
                   ELSE IF Len(SameBrand(listing, collection)) = 0 THEN 20 ELSE 0)
                + (IF TypeUnderRepresented(listing, collection) THEN 15 ELSE 0)
                + IconicBoost(listing)
  IN IF points < 0 THEN 0 ELSE IF points > 100 THEN 100 ELSE points

\* A new brand, no duplicate, a type that is not under-represented, no
\* iconic model.
PlainNewBrand(listing, collection) ==
  /\ Len(SameBrand(listing, collection)) = 0
  /\ ~ TypeUnderRepresented(listing, collection)
  /\ IconicBoost(listing) = 0

OnHold(p) == \E i \in 1 .. Len(ledger) : ledger[i].id = p /\ ledger[i].on_hold

BelowMinimum(i, d) ==
  IF i = 1 THEN d.rated + d.under < MIN_WEIGHT_OPT
  ELSE IF i = 2 THEN d.rated + d.under + d.sold_only < MIN_PRICE_PRED
  ELSE IF i = 3 THEN d.learned < MIN_APPRECIATION
  ELSE \/ (d.owned + d.rated + d.buys) + (d.under + d.skips) < MIN_BUY_SKIP
       \/ d.owned + d.rated + d.buys < MIN_PER_CLASS
       \/ d.under + d.skips < MIN_PER_CLASS

\* C21: the call of a trainer whose model has fewer valid samples than its
\* minimum returns False without raising, leaves the model file and the
\* metadata file of every model as they were, and train_all goes on to the
\* next model.
C21_BelowMinimumSkips ==
  [][ \A i \in 1 .. Len(MODEL_NAMES) :
        (train.pc = i /\ ~ train.raised /\ BelowMinimum(i, train_inputs))
          => /\ train'.pc = i + 1
             /\ ~ train'.raised
             /\ train'.results = Append(train.results, FALSE)
             /\ models_dir' = models_dir ]_vars

\* A run that skipped the first and the third model and trained the second
\* and the fourth, the files of the skipped models still missing.
C21_Witness ==
  /\ train.pc = Len(MODEL_NAMES) + 1
  /\ train.results = << FALSE, TRUE, FALSE, TRUE >>
  /\ BelowMinimum(1, train_inputs) /\ BelowMinimum(3, train_inputs)
  /\ models_dir[1] = NoModelFiles /\ models_dir[3] = NoModelFiles
  /\ models_dir[2].model = "ok" /\ models_dir[4].model = "ok"

(***************************************************************************)
(* searcher.py: the grace period of check_sold                             *)
(***************************************************************************)
\* The step is an iteration of the loop in which check_sold ran.
SoldDetection == now' # now /\ all_current_ids' # {}

\* C22: an id that check_sold confirms was a candidate before the crawl and
\* its first-miss timestamp lies SOLD_THRESHOLD seconds or more before the
\* time of the check; a tracked id missing for the first time is not
\* confirmed in that crawl and becomes a candidate stamped with the time of
\* the check.
C22_ConfirmedAfterGrace ==
  [][ \A p \in IDs :
        /\ (now' # now /\ p \in newly_sold') =>
             /\ all_current_ids' # {}
             /\ p \in DOMAIN sold_candidates
             /\ now' - sold_candidates[p] >= SOLD_THRESHOLD
        /\ (SoldDetection /\ p \in seen_ids \ sold_ids /\ p \notin all_current_ids'
              /\ p \notin DOMAIN sold_candidates) =>
             /\ p \notin newly_sold'
             /\ p \in DOMAIN sold_candidates'
             /\ sold_candidates'[p] = now' ]_vars

\* A crawl confirmed an id exactly SOLD_THRESHOLD seconds after the crawl
\* that saw it missing for the first time, with the other id on the site.
C22_Witness ==
  \E p \in IDs :
    /\ p \in newly_sold /\ missStart[p] = now - SOLD_THRESHOLD
    /\ all_current_ids = IDs \ { p }
    /\ p \notin DOMAIN sold_candidates

(***************************************************************************)
(* searcher.py: a crash in the middle of an iteration                      *)
(***************************************************************************)
\* C23: no id is both a sold candidate and confirmed sold, in the state of
\* the process and in the state the files give when they are loaded.
C23_CandidateOrSold ==
  /\ DOMAIN sold_candidates \cap sold_ids = {}
  /\ DOMAIN load_sold_candidates(cand_file) \cap load_sold_ids(ledger) = {}

(***************************************************************************)
(* searcher.py: the sold date of a confirmed id                            *)
(***************************************************************************)
\* C24: the ids the last crawl emitted as confirmed sold have a sold date in
\* the workbook, so that load_sold_ids returns them after a restart.
C24_EmittedHasSoldDate ==
  \A p \in newly_sold :
    /\ p \in load_sold_ids(ledger)
    /\ \E i \in 1 .. Len(ledger) : ledger[i].id = p /\ ledger[i].sold

(***************************************************************************)
(* searcher.py: a crawl that returns nothing                               *)
(***************************************************************************)
\* C25: an iteration whose crawl returns no listing confirms no id, and
\* leaves the candidate map with its timestamps, the candidate file, the
\* sold set and the workbook as they were.
C25_EmptyCrawlSkipsDetection ==
  [][ (now' # now /\ all_current_ids' = {}) =>
        /\ newly_sold' = {}
        /\ sold_candidates' = sold_candidates
        /\ cand_file' = cand_file
        /\ sold_ids' = sold_ids
        /\ ledger' = ledger ]_vars

\* After a crawl that returned nothing: a candidate whose grace period is
\* over is still a candidate, and a tracked id that is no candidate has not
\* become one.
C25_Witness ==
  /\ ~ fresh /\ all_current_ids = {} /\ newly_sold = {}
  /\ \E p \in DOMAIN sold_candidates : now - sold_candidates[p] >= SOLD_THRESHOLD
  /\ \E q \in seen_ids \ sold_ids : q \notin DOMAIN sold_candidates

(***************************************************************************)
(* searcher.py: the rows of the workbook                                   *)
(***************************************************************************)
\* C26: a step keeps the rows of the workbook, with their ids, in place; a
\* row it appends is the row of a listing of the crawl that is not on hold
\* and whose condition ranks excellent- or better; and no two rows of the
\* workbook have the same id.
C26_AppendedOnce ==
  [][ /\ Len(ledger') >= Len(ledger)
      /\ \A i \in 1 .. Len(ledger) : ledger'[i].id = ledger[i].id
      /\ \A i \in Len(ledger) + 1 .. Len(ledger') :
           /\ ledger'[i].id \in all_current_ids' \ on_hold_crawl'
           /\ condition_rank(cache'[ledger'[i].id]) >= MIN_CONDITION_RANK
      /\ \A i, j \in 1 .. Len(ledger') :
           ledger'[i].id = ledger'[j].id => i = j ]_vars

(***************************************************************************)
(* valuation.py: the cache of learned rates after a recomputation          *)
(***************************************************************************)
\* C27: once compute_learned_rates has rewritten the learned rates in a
\* process, an appreciation_rate call of that process returns what the rates
\* now in price_history.json give: the learned rate of the key, or the
\* static rate when the key has none.
C27_RateAfterCompute ==
  (last.op = "rate" /\ last.computed) =>
    LET table   == IF price_history.exists THEN price_history.learned_rates ELSE << >>
        learned == IF last.query.model # << >> THEN table ELSE << >>
    IN last.ret = appreciation_rate(learned, last.query.brand, last.query.year,
                                    last.query.model)

\* A call after a recomputation returned the new learned rate of a key,
\* where the cache, loaded by an earlier call, held other rates when the
\* recomputation began.
C27_Witness ==
  /\ last.op = "rate" /\ last.computed /\ last.stale
  /\ last.source = "learned"
  /\ last.ret = price_history.learned_rates[KeyOf(last.query.brand, last.query.model)]
  /\ last.ret # StaticRate(last.query.brand, last.query.year)

(***************************************************************************)
(* reverb_sold.py: the stored sold listings                                *)
(***************************************************************************)
\* C28: the stored sold listings never hold two records with one id; a step
\* keeps the records already stored, unchanged and in place; a query that
\* fails adds nothing to the listings collect holds, and collect goes on to
\* the next query.
C28_StoredOnceAndKept ==
  [][ /\ \A i, j \in 1 .. Len(training_data') :
           training_data'[i].id = training_data'[j].id => i = j
      /\ Len(training_data') >= Len(training_data)
      /\ SubSeq(training_data', 1, Len(training_data)) = training_data
      /\ (/\ collect_run.pc \in 1 .. Len(Queries)
          /\ collect_run'.outcomes = Append(collect_run.outcomes, "failed")) =>
           /\ collect_run'.data = collect_run.data
           /\ collect_run'.pc = collect_run.pc + 1 ]_vars

\* A second run whose first query failed has been saved: it kept the records
\* of the first run, skipped a fetched listing that was stored at another
\* price, and added a new one.
C28_Witness ==
  /\ collect_run.pc = 0 /\ collect_run.runs = 2
  /\ collect_run.outcomes = << "failed", "fetched" >>
  /\ training_data = << SoldListing(1, 5), SoldListing(2, 5) >>

====
